---- MODULE Spec2Model ----
(***************************************************************************)
(* A model of the smart-contract database builder: the DuckDB-backed       *)
(* Storage (db.rs), the content hash of a contract (utils.rs,              *)
(* plain_contract.rs), PlainContract::compile (plain_contract.rs) and the  *)
(* paginated index_functions orchestrator with its spawned compilation     *)
(* units (main.rs).                                                        *)
(*                                                                         *)
(* Text is a sequence of one-character strings.                            *)
(***************************************************************************)
EXTENDS Integers, Sequences, FiniteSets, TLC

VARIABLES
    \* ---- Storage (db.rs) ----
    contract,          \* the rows of table `contract`, in insertion order
    function,          \* the rows of table `function`, in insertion order
    \* ---- history of the store_contracts calls ----
    store_calls,       \* how many calls were made: 0, 1, or 2 for two and more
    store_last,        \* the argument of the last call
    store_same,        \* the last call's set of contracts is that of the call before
    store_count,       \* count_contracts() right after the last call
    store_prev_count,  \* count_contracts() right after the call before it
    store_result,      \* what the last call returned ("none" before any call)
    \* ---- index_functions (main.rs) ----
    total_countracts,  \* count_contracts() read at entry
    size,              \* args.chunk_size
    i,                 \* the page offset
    opc,               \* where index_functions is
    task,              \* per contract position: where its spawned unit is
    outcome,           \* per contract position: what the toolchain and the AST give
    functions,         \* the page's Arc<Mutex<Vec<ContractFunction>>>: the Vec
    mutex,             \* who holds that Mutex: 0 nobody, -1 index_functions,
                       \* p > 0 the unit of contract position p
    handed,            \* per contract position: how many units were given it
    fetched,           \* the offsets of the pages queried so far, in order
    stored,            \* the offsets of the pages given to store_functions
    compile_called,    \* the contract positions whose unit called compile()
    runs,              \* how many runs of index_functions returned Ok before this one
    function_first,    \* table `function` as the first of them left it
    \* ---- PlainContract::compile, one call per slot ----
    cpc,               \* per slot: where the call is
    cin,               \* per slot: the contract being compiled
    croot,             \* per slot: the TempDir the call owns (0: none)
    cfields,           \* per slot: is compilation_output / source_files set
    tmpfs,             \* the temporary directories that exist
    \* ---- one call of a method that only computes ----
    subject,           \* the value the method is called on
    call,              \* the method and its arguments (<<>> before the call)
    call_result,       \* what the call gave (<<>> before the call)
    scope,             \* nodes_in_contract as the contract search left it
    disk               \* the files fs::write made: path -> content

storeVars == <<store_calls, store_last, store_same, store_count, store_prev_count,
               store_result>>
indexVars == <<function, total_countracts, size, i, opc, task, outcome, functions,
               mutex, handed, fetched, stored, compile_called, runs, function_first>>
compileVars == <<cpc, cin, croot, cfields, tmpfs>>
callVars == <<subject, call, call_result, scope, disk>>
vars == <<contract, storeVars, indexVars, compileVars, callVars>>

-----------------------------------------------------------------------------
(* Bounds of the model *)

MaxContracts == 4       \* contracts in the table when index_functions runs
MaxChunk == 3           \* largest --chunk-size tried
MaxBatch == 2           \* contracts in one store_contracts call
MaxSlots == 2           \* concurrent compile() calls
MaxTempNames == 3       \* names tempfile::tempdir() can draw
MaxReindex == 3         \* contracts in the table when index_functions is run twice
MaxTop == 3             \* top-level nodes of an AST
MaxMembers == 2         \* member nodes of a contract definition
MaxStart == 3           \* largest byte offset of a source location
MaxLength == 3          \* largest byte length of a source location
MaxContent == 2         \* characters of a hashed single file
MaxFiles == 3           \* files of a hashed multi-file source
MaxMultiContent == 1    \* characters of each of them
MaxComponents == 3      \* components of a file name that tries to leave the target
MaxEntries == 2         \* files given to one write_entries call
MaxItems == 2           \* folders or documents one ingestion walk visits
MaxLive == 3            \* contracts in the table when units may hang
MaxOverloadMembers == 3 \* member nodes of a contract with overloaded functions

-----------------------------------------------------------------------------
(* Generic helpers *)

Range(s) == {s[k] : k \in DOMAIN s}

SeqsUpTo(S, n) == UNION {[1..k -> S] : k \in 0..n}

RECURSIVE Flatten(_)
Flatten(ss) == IF ss = <<>> THEN <<>> ELSE Head(ss) \o Flatten(Tail(ss))

Occurrences(s, x) == Cardinality({k \in DOMAIN s : s[k] = x})

Min(a, b) == IF a <= b THEN a ELSE b

\* Op applied to a value that is computed once.
With(value, Op(_)) == Op(value)

\* Option<T>
None == <<>>
Some(x) == <<x>>

\* Result<String>, and a panic of the calling thread. An error carries its
\* message as a one-element text.
Ok(v) == [kind |-> "Ok", value |-> v]
Err(msg) == [kind |-> "Err", value |-> <<msg>>]
Panic(msg) == [kind |-> "panic", value |-> <<msg>>]

\* Pages index_functions may query in one run (a chunk size of 0 never ends).
MaxFetch == MaxContracts + 1

-----------------------------------------------------------------------------
(* utils.rs: simple_hash *)

\* The characters the regex class \s matches, among those the model uses.
Whitespace == {" ", "\n", "\t", "\r"}

\* A faulty variant of StripWhitespace: only the spaces are removed.
StripSpaces(content) == SelectSeq(content, LAMBDA ch : ch # " ")

\* re.replace_all(content, "") with re = \s+
StripWhitespace(content) == SelectSeq(content, LAMBDA ch : ch \notin Whitespace)

\* md5::compute followed by format!("{:x}"): a digest is a text without
\* whitespace. MD5 is taken as collision free: the digest of a text is that
\* text between two delimiters, so that joined digests stay distinguishable as
\* the fixed-width hex digests are.
Md5Hex(bytes) == <<"<">> \o bytes \o <<">">>

simple_hash(content) == Md5Hex(StripWhitespace(content))

\* The order of `str` (used by sorted()): lexicographic over the characters.
CharOrder == <<"\t", "\n", "\r", " ", "0", "<", ">", "a", "b", "x">>
CharRank(ch) == CHOOSE k \in DOMAIN CharOrder : CharOrder[k] = ch

\* A faulty variant of StrLess: no order, sorted() leaves the list as it is.
StrNeverLess(s, t) == FALSE

RECURSIVE StrLess(_, _)
StrLess(s, t) ==
    IF t = <<>> THEN FALSE
    ELSE IF s = <<>> THEN TRUE
    ELSE IF Head(s) = Head(t) THEN StrLess(Tail(s), Tail(t))
    ELSE CharRank(Head(s)) < CharRank(Head(t))

-----------------------------------------------------------------------------
(* plain_contract.rs: the data model *)

SourceTypes == {"single_sol", "multi_sol", "vyper", "json"}

SourceFile(name, content) == [name |-> name, content |-> content]

\* ContractSource: `type` is the variant; `files` is the variant's payload, one
\* SourceFile for every variant but MultiSolidity.
ContractSource(type, files) == [type |-> type, files |-> files]

\* Metadata, all five fields.
MetadataOf(contract_name, compiler_version, runs_, optimization_used, bytecode_hash) ==
    [contract_name |-> contract_name, compiler_version |-> compiler_version,
     runs |-> runs_, optimization_used |-> optimization_used,
     bytecode_hash |-> bytecode_hash]

\* The metadata of the sample contracts: 200 optimizer runs, optimizer off.
Metadata(contract_name, compiler_version) ==
    MetadataOf(contract_name, compiler_version, 200, FALSE, "ipfs")

\* A file system: the regular files (path and content), the directories, and
\* the paths fs::write has written since the start.
EmptyDisk == [files |-> {}, dirs |-> {}, written |-> {}]

\* PlainContract::new
PlainContract(metadata, source) == [metadata |-> metadata, source |-> source]

\* ContractSource::hash
ContractSourceHash(source) ==
    IF source.type = "multi_sol"
    THEN simple_hash(Flatten(SortSeq(
             [k \in DOMAIN source.files |-> simple_hash(source.files[k].content)],
             StrLess)))
    ELSE simple_hash(source.files[1].content)

\* A faulty variant of ContractHash: the declared name is hashed with the
\* source.
ContractHashNamed(c) ==
    simple_hash(c.metadata.contract_name \o ContractSourceHash(c.source))

\* PlainContract::hash and PlainContract::id
ContractHash(c) == ContractSourceHash(c.source)
ContractId(c) == ContractHash(c)

-----------------------------------------------------------------------------
(* plain_contract.rs: the structured document of the Json variant and
   ContractSource::get_source_files *)

\* A JSON string literal body: line feed, tab, carriage return, quote and
\* backslash are written as escapes, every other character as itself.
JsonEscapeChar(ch) ==
    CASE ch = "\n" -> <<"\\", "n">>
      [] ch = "\t" -> <<"\\", "t">>
      [] ch = "\r" -> <<"\\", "r">>
      [] ch = "\"" -> <<"\\", "\"">>
      [] ch = "\\" -> <<"\\", "\\">>
      [] OTHER -> <<ch>>

JsonString(text) ==
    <<"\"">> \o Flatten([k \in DOMAIN text |-> JsonEscapeChar(text[k])]) \o <<"\"">>

Key_sources == <<"s", "o", "u", "r", "c", "e", "s">>
Key_settings == <<"s", "e", "t", "t", "i", "n", "g", "s">>
Key_content == <<"c", "o", "n", "t", "e", "n", "t">>

\* The source map of an EtherscanJson: "name":{"content":"text"},...
RECURSIVE JsonEntries(_)
JsonEntries(files) ==
    IF files = <<>> THEN <<>>
    ELSE JsonString(files[1].name) \o <<":", "{">> \o JsonString(Key_content)
         \o <<":">> \o JsonString(files[1].content) \o <<"}">>
         \o (IF Len(files) > 1 THEN <<",">> ELSE <<>>) \o JsonEntries(Tail(files))

\* The document of an Etherscan export with the fields `sources` and, when
\* asked for, `settings` (holding defaults only):
\* {"sources":{...},"settings":{}}
JsonDocumentOf(files, with_settings) ==
    <<"{">> \o JsonString(Key_sources) \o <<":", "{">> \o JsonEntries(files) \o <<"}">>
    \o (IF with_settings
        THEN <<",">> \o JsonString(Key_settings) \o <<":", "{", "}">>
        ELSE <<>>)
    \o <<"}">>

JsonDocument(files) == JsonDocumentOf(files, TRUE)

\* serde_json::from_str::<EtherscanJson>, reduced to the same: whitespace
\* between the tokens is skipped, escapes are read back, a raw control
\* character in a string and anything else out of place is an error.
RECURSIVE SkipWhitespace(_)
SkipWhitespace(text) ==
    IF text # <<>> /\ text[1] \in Whitespace THEN SkipWhitespace(Tail(text)) ELSE text

JsonUnescapeChar(ch) ==
    CASE ch = "n" -> <<"\n">>
      [] ch = "t" -> <<"\t">>
      [] ch = "r" -> <<"\r">>
      [] ch = "\"" -> <<"\"">>
      [] ch = "\\" -> <<"\\">>
      [] OTHER -> <<>>

\* Reads a string literal whose opening quote was consumed: the text read
\* and what follows, or bad.
RECURSIVE ReadJsonString(_, _)
ReadJsonString(text, acc) ==
    IF text = <<>> THEN [bad |-> TRUE]
    ELSE IF text[1] = "\"" THEN [bad |-> FALSE, text |-> acc, rest |-> Tail(text)]
    ELSE IF text[1] = "\\"
    THEN IF Len(text) < 2 \/ JsonUnescapeChar(text[2]) = <<>>
         THEN [bad |-> TRUE]
         ELSE ReadJsonString(SubSeq(text, 3, Len(text)), acc \o JsonUnescapeChar(text[2]))
    ELSE IF text[1] \in {"\n", "\t", "\r"} THEN [bad |-> TRUE]
    ELSE ReadJsonString(Tail(text), Append(acc, text[1]))

\* Reads the given tokens, each after any whitespace: what follows, or bad.
RECURSIVE ReadTokens(_, _)
ReadTokens(text, tokens) ==
    IF tokens = <<>> THEN [bad |-> FALSE, rest |-> text]
    ELSE With(SkipWhitespace(text), LAMBDA t :
           IF t = <<>> \/ t[1] # Head(tokens) THEN [bad |-> TRUE]
           ELSE ReadTokens(Tail(t), Tail(tokens)))

\* Reads a string literal after any whitespace.
ReadJsonKey(text) ==
    With(ReadTokens(text, <<"\"">>), LAMBDA open :
      IF open.bad THEN [bad |-> TRUE] ELSE ReadJsonString(open.rest, <<>>))

\* A HashMap insert: the value of an existing key is replaced.
MapInsert(files, name, content) ==
    IF \E k \in DOMAIN files : files[k].name = name
    THEN [k \in DOMAIN files |->
            IF files[k].name = name THEN [files[k] EXCEPT !.content = content]
            ELSE files[k]]
    ELSE Append(files, [name |-> name, content |-> content])

\* Reads `: value` with the given reader of the value.
ReadColonThen(text, Read(_)) ==
    With(ReadTokens(text, <<":">>), LAMBDA colon :
      IF colon.bad THEN [bad |-> TRUE] ELSE Read(colon.rest))

\* Reads a SourceCodeEntry: {"content":"text"}
ReadSourceCodeEntry(text) ==
    With(ReadTokens(text, <<"{">>), LAMBDA open :
      IF open.bad THEN [bad |-> TRUE]
      ELSE With(ReadJsonKey(open.rest), LAMBDA key :
        IF key.bad \/ key.text # Key_content THEN [bad |-> TRUE]
        ELSE With(ReadColonThen(key.rest, ReadJsonKey), LAMBDA content :
          IF content.bad THEN [bad |-> TRUE]
          ELSE With(ReadTokens(content.rest, <<"}">>), LAMBDA close :
            IF close.bad THEN [bad |-> TRUE]
            ELSE [bad |-> FALSE, text |-> content.text, rest |-> close.rest]))))

\* Reads `"name" : {"content":"text"}` entries up to the closing brace of the
\* source map.
RECURSIVE ReadJsonEntries(_, _)
ReadJsonEntries(text, acc) ==
    With(ReadJsonKey(text), LAMBDA name :
      IF name.bad THEN [bad |-> TRUE]
      ELSE With(ReadColonThen(name.rest, ReadSourceCodeEntry), LAMBDA entry :
        IF entry.bad THEN [bad |-> TRUE]
        ELSE With(SkipWhitespace(entry.rest), LAMBDA t :
          IF t = <<>> THEN [bad |-> TRUE]
          ELSE IF t[1] = ","
          THEN ReadJsonEntries(Tail(t), MapInsert(acc, name.text, entry.text))
          ELSE IF t[1] = "}"
          THEN [bad |-> FALSE, files |-> MapInsert(acc, name.text, entry.text),
                rest |-> Tail(t)]
          ELSE [bad |-> TRUE])))

\* Reads the source map: {} or { entries }
ReadSourceMap(text) ==
    With(ReadTokens(text, <<"{">>), LAMBDA open :
      IF open.bad THEN [bad |-> TRUE]
      ELSE With(ReadTokens(open.rest, <<"}">>), LAMBDA close :
        IF ~close.bad THEN [bad |-> FALSE, files |-> <<>>, rest |-> close.rest]
        ELSE ReadJsonEntries(open.rest, <<>>)))

\* Reads the value of `settings`: {}
ReadSettings(text) == ReadTokens(text, <<"{", "}">>)

\* Reads the fields of the document up to its closing brace: `sources` (once,
\* required), `settings` (once, optional), and fields with a string value
\* (`name`, `langauge` and unknown ones, which are ignored).
RECURSIVE ReadFields(_, _, _)
ReadFields(text, sources, settings) ==
    With(ReadJsonKey(text), LAMBDA key :
      IF key.bad THEN [bad |-> TRUE]
      ELSE IF key.text = Key_sources /\ sources # None THEN [bad |-> TRUE]
      ELSE IF key.text = Key_settings /\ settings THEN [bad |-> TRUE]
      ELSE With(IF key.text = Key_sources THEN ReadColonThen(key.rest, ReadSourceMap)
                ELSE IF key.text = Key_settings THEN ReadColonThen(key.rest, ReadSettings)
                ELSE ReadColonThen(key.rest, ReadJsonKey),
                LAMBDA value :
        IF value.bad THEN [bad |-> TRUE]
        ELSE With(<<IF key.text = Key_sources THEN Some(value.files) ELSE sources,
                    settings \/ key.text = Key_settings,
                    SkipWhitespace(value.rest)>>,
                  LAMBDA read :
          IF read[3] = <<>> THEN [bad |-> TRUE]
          ELSE IF read[3][1] = "," THEN ReadFields(Tail(read[3]), read[1], read[2])
          ELSE IF read[3][1] = "}" /\ SkipWhitespace(Tail(read[3])) = <<>>
                  /\ read[1] # None
          THEN [bad |-> FALSE, files |-> read[1][1], settings |-> read[2]]
          ELSE [bad |-> TRUE])))

\* serde_json::from_str::<EtherscanJson>: the source map and whether settings
\* is Some, or bad.
EtherscanJson(text) ==
    With(ReadTokens(text, <<"{">>), LAMBDA open :
      IF open.bad THEN [bad |-> TRUE] ELSE ReadFields(open.rest, None, FALSE))

\* The source map of a document, or bad.
JsonSources(text) == EtherscanJson(text)

\* A faulty variant of get_source_files: a document that cannot be read has
\* no files.
get_source_files_or_empty(source) ==
    IF source.type = "json"
    THEN With(JsonSources(source.files[1].content), LAMBDA parsed :
           [kind |-> "Ok", value |-> IF parsed.bad THEN <<>> ELSE parsed.files])
    ELSE [kind |-> "Ok", value |-> source.files]

\* ContractSource::get_source_files, a result: Ok with the files (in the order
\* of the document for the Json variant), or the error of serde_json.
get_source_files(source) ==
    IF source.type = "json"
    THEN With(JsonSources(source.files[1].content), LAMBDA parsed :
           IF parsed.bad
           THEN [kind |-> "Err", value |-> <<"serde_json::from_str">>]
           ELSE [kind |-> "Ok", value |-> parsed.files])
    ELSE [kind |-> "Ok", value |-> source.files]

-----------------------------------------------------------------------------
(* std::path and plain_contract.rs: sanitize_path and write_entries *)

\* A path is the sequence of its components, each a text: the root "/", the
\* current directory ".", the parent directory ".." or a normal name. Two
\* paths are equal when their components are (PartialEq of Path).
RootDir == <<"/">>
CurDir == <<".">>
ParentDir == <<".", ".">>

\* The pieces of a text between its "/" characters.
RECURSIVE SplitSlash(_, _)
SplitSlash(text, piece) ==
    IF text = <<>> THEN <<piece>>
    ELSE IF text[1] = "/" THEN <<piece>> \o SplitSlash(Tail(text), <<>>)
    ELSE SplitSlash(Tail(text), Append(piece, text[1]))

\* Path::components: a leading "/" is the root, empty pieces are dropped, and
\* "." is dropped everywhere but at the start of a relative path.
components(text) ==
    LET pieces == SplitSlash(text, <<>>)
        has_root == text # <<>> /\ text[1] = "/"
        kept == {k \in DOMAIN pieces :
                   /\ pieces[k] # <<>>
                   /\ pieces[k] = CurDir => (k = 1 /\ ~has_root)}
        order == SelectSeq([k \in DOMAIN pieces |-> k], LAMBDA k : k \in kept)
    IN (IF has_root THEN <<RootDir>> ELSE <<>>)
       \o [j \in DOMAIN order |-> pieces[order[j]]]

\* PathBuf::from(name)
PathBufFrom(name) == components(name)

\* Path::has_root / is_absolute
IsAbsolute(path) == path # <<>> /\ path[1] = RootDir

\* Path::strip_prefix("/"): the path without its root, or an error (None)
StripRootPrefix(path) == IF IsAbsolute(path) THEN Some(Tail(path)) ELSE None

\* A faulty variant of NotParentDir: every component is kept.
AnyComponent(component) == TRUE

\* |x| x.as_os_str() != Component::ParentDir.as_os_str()
NotParentDir(component) == component # ParentDir

\* A faulty variant of ForceRelative: the path is left as it was collected.
KeepAbsolute(sanitized) == sanitized

\* sanitized.strip_prefix("/").map(PathBuf::from).unwrap_or(sanitized)
ForceRelative(sanitized) ==
    IF StripRootPrefix(sanitized) # None THEN StripRootPrefix(sanitized)[1] ELSE sanitized

\* sanitize_path
sanitize_path(name) ==
    ForceRelative(SelectSeq(components(name), NotParentDir))

\* Path::file_name: the last component when it is a normal one
PathFileName(path) ==
    IF path = <<>> \/ path[Len(path)] \in {RootDir, CurDir, ParentDir}
    THEN None
    ELSE Some(path[Len(path)])

\* The position of the last "." of a text, 0 when it has none.
LastDot(text) ==
    IF \E k \in DOMAIN text : text[k] = "."
    THEN CHOOSE k \in DOMAIN text :
            text[k] = "." /\ \A l \in (k + 1)..Len(text) : text[l] # "."
    ELSE 0

\* Path::extension: what follows the last "." of the file name, None when
\* there is no file name, no "." or nothing before the last "."
extension(path) ==
    IF PathFileName(path) = None THEN None
    ELSE LET file == PathFileName(path)[1] IN
         IF LastDot(file) <= 1 THEN None
         ELSE Some(SubSeq(file, LastDot(file) + 1, Len(file)))

\* Path::file_stem: the file name without its extension
file_stem(file) ==
    IF LastDot(file) <= 1 THEN file ELSE SubSeq(file, 1, LastDot(file) - 1)

\* Path::with_extension: the extension of the file name replaced; a path
\* without a file name is left as it is.
with_extension(path, ext) ==
    IF PathFileName(path) = None THEN path
    ELSE [path EXCEPT ![Len(path)] = file_stem(path[Len(path)]) \o <<".">> \o ext]

Sol == <<"s", "o", "l">>

\* Path::join: an absolute path replaces the base; "." inside a path is not
\* a component.
join(base, path) ==
    IF IsAbsolute(path) THEN path
    ELSE base \o SelectSeq(path, LAMBDA component : component # CurDir)

\* Path::parent
parent(path) ==
    IF path = <<>> \/ path = <<RootDir>> THEN None
    ELSE Some(SubSeq(path, 1, Len(path) - 1))

\* The directories create_dir_all(path) needs: the path and every path above
\* it.
Ancestors(path) == {SubSeq(path, 1, n) : n \in 1..Len(path)}

IsFile(d, path) == \E f \in d.files : f.path = path

\* tokio::fs::create_dir_all: an error when a regular file is in the way.
create_dir_all(d, path) ==
    IF \E a \in Ancestors(path) : IsFile(d, a)
    THEN [kind |-> "Err", value |-> <<"create_dir_all">>, disk |-> d]
    ELSE [kind |-> "Ok", value |-> <<>>,
          disk |-> [d EXCEPT !.dirs = d.dirs \cup Ancestors(path)]]

\* tokio::fs::write: the file made or its content replaced; an error when
\* the path is a directory.
fs_write(d, path, content) ==
    IF path \in d.dirs
    THEN [kind |-> "Err", value |-> <<"fs::write">>, disk |-> d]
    ELSE [kind |-> "Ok", value |-> <<>>,
          disk |-> [d EXCEPT !.files = {f \in d.files : f.path # path}
                                        \cup {[path |-> path, content |-> content]},
                             !.written = d.written \cup {path}]]

\* A faulty variant of ClaimedBy: the default extension is never held back.
ClaimedByNone(entries, with_ext) == FALSE

\* entries.iter().any(|e| PathBuf::from(e.name.clone()) == with_extension)
ClaimedBy(entries, with_ext) ==
    \E k \in DOMAIN entries : PathBufFrom(entries[k].name) = with_ext

\* The body of the loop of write_entries up to `joined`: the path an entry is
\* written to.
JoinedPath(dir, entries, entry) ==
    With(sanitize_path(entry.name), LAMBDA sanitized_path :
      IF extension(sanitized_path) = None
         /\ ~ClaimedBy(entries, with_extension(sanitized_path, Sol))
      THEN join(dir, with_extension(sanitized_path, Sol))
      ELSE join(dir, sanitized_path))

\* The loop of write_entries from entry k on; the first error ends it.
RECURSIVE WriteEntriesFrom(_, _, _, _)
WriteEntriesFrom(d, dir, entries, k) ==
    IF k > Len(entries) THEN [kind |-> "Ok", value |-> <<>>, disk |-> d]
    ELSE With(JoinedPath(dir, entries, entries[k]), LAMBDA joined :
      IF parent(joined) = None
      THEN WriteEntriesFrom(d, dir, entries, k + 1)
      ELSE With(create_dir_all(d, parent(joined)[1]), LAMBDA made :
        IF made.kind = "Err" THEN made
        ELSE With(fs_write(made.disk, joined, entries[k].content), LAMBDA written :
          IF written.kind = "Err" THEN written
          ELSE WriteEntriesFrom(written.disk, dir, entries, k + 1))))

\* ContractSource::write_entries: the result, and the file system it leaves.
write_entries(d, dir, entries) ==
    With(create_dir_all(d, dir), LAMBDA made :
      IF made.kind = "Err" THEN made
      ELSE WriteEntriesFrom(made.disk, dir, entries, 1))

-----------------------------------------------------------------------------
(* db.rs: Storage *)

\* The row store_contracts binds for contract c.
ContractRow(c) ==
    [id |-> ContractHash(c),
     name |-> c.metadata.contract_name,
     metadata |-> c.metadata,
     source |-> c.source,
     source_type |-> c.source.type]

\* row_to_contract
row_to_contract(row) == PlainContract(row.metadata, row.source)

\* A faulty variant of InsertOrIgnore: a table without its primary key.
InsertAlways(table, row) == Append(table, row)

\* A faulty variant of InsertOrIgnore: INSERT OR REPLACE, the conflicting row
\* takes the place of the existing one.
InsertOrReplace(table, row) ==
    IF \E k \in DOMAIN table : table[k].id = row.id
    THEN [k \in DOMAIN table |-> IF table[k].id = row.id THEN row ELSE table[k]]
    ELSE Append(table, row)

\* One execution of an insert with ON CONFLICT DO NOTHING / INSERT OR IGNORE
\* into a table whose primary key is `id`.
InsertOrIgnore(table, row) ==
    IF \E k \in DOMAIN table : table[k].id = row.id
    THEN table
    ELSE Append(table, row)

\* The loop of store_contracts over its argument.
RECURSIVE StoreContractsInto(_, _)
StoreContractsInto(table, contracts) ==
    IF contracts = <<>> THEN table
    ELSE StoreContractsInto(InsertOrIgnore(table, ContractRow(Head(contracts))),
                            Tail(contracts))

\* Storage::count_contracts
count_contracts(table) == Len(table)

\* The loop of store_functions over its argument.
RECURSIVE StoreFunctionsInto(_, _)
StoreFunctionsInto(table, fs) ==
    IF fs = <<>> THEN table
    ELSE StoreFunctionsInto(InsertOrIgnore(table, Head(fs)), Tail(fs))

-----------------------------------------------------------------------------
(* The contracts the store is fed with: the same code under another name and
   other whitespace, the same text as two source variants, and different code. *)

Txt_a == <<"a">>
Txt_a_sp == <<"a", " ">>
Txt_b == <<"b">>

StoreSamples ==
    {PlainContract(Metadata("N1", "v0.8.0"),
                   ContractSource("single_sol", <<SourceFile("main.sol", Txt_a)>>)),
     PlainContract(Metadata("N2", "v0.8.0"),
                   ContractSource("single_sol", <<SourceFile("main.sol", Txt_a_sp)>>)),
     PlainContract(Metadata("N1", "v0.8.0"),
                   ContractSource("vyper", <<SourceFile("main.vy", Txt_b)>>)),
     PlainContract(Metadata("N1", "v0.8.0"),
                   ContractSource("multi_sol", <<SourceFile("A.sol", Txt_a),
                                                 SourceFile("B.sol", Txt_b)>>)),
     PlainContract(Metadata("N1", "v0.8.0"),
                   ContractSource("json", <<SourceFile("contract.json", Txt_b)>>))}

-----------------------------------------------------------------------------
(* What each specification leaves idle *)

IndexIdle ==
    /\ function = <<>>
    /\ total_countracts = 0
    /\ size = 0
    /\ i = 0
    /\ opc = "idle"
    /\ task = <<>>
    /\ outcome = <<>>
    /\ functions = <<>>
    /\ mutex = 0
    /\ handed = <<>>
    /\ fetched = <<>>
    /\ stored = {}
    /\ compile_called = {}
    /\ runs = 0
    /\ function_first = <<>>

StoreIdle ==
    /\ store_calls = 0
    /\ store_last = <<>>
    /\ store_same = FALSE
    /\ store_count = 0
    /\ store_prev_count = 0
    /\ store_result = "none"

CompileIdle ==
    /\ cpc = <<>>
    /\ cin = <<>>
    /\ croot = <<>>
    /\ cfields = <<>>
    /\ tmpfs = {}

CallIdle ==
    /\ subject = <<>>
    /\ call = <<>>
    /\ call_result = <<>>
    /\ scope = <<>>
    /\ disk = EmptyDisk

-----------------------------------------------------------------------------
(* SpecStore: calls of Storage::store_contracts on a fresh database *)

InitStore ==
    /\ contract = <<>>
    /\ StoreIdle
    /\ IndexIdle
    /\ CompileIdle
    /\ CallIdle

\* Storage::store_contracts(contracts), then Storage::count_contracts()
store_contracts(contracts) ==
    /\ contract' = StoreContractsInto(contract, contracts)
    /\ store_calls' = Min(store_calls + 1, 2)
    /\ store_last' = contracts
    /\ store_same' = (store_calls >= 1 /\ Range(contracts) = Range(store_last))
    /\ store_count' = count_contracts(contract')
    /\ store_prev_count' = store_count
    /\ store_result' = "Ok"
    /\ UNCHANGED <<indexVars, compileVars, callVars>>

NextStore == \E contracts \in SeqsUpTo(StoreSamples, MaxBatch) : store_contracts(contracts)

SpecStore == InitStore /\ [][NextStore]_vars

-----------------------------------------------------------------------------
(* SpecRows: store_contracts, store_contract and get_contract called on one
   database, in any order *)

\* let id = id.unwrap_or_else(|| contract.hash())
RowId(c, id) == IF id = None THEN ContractHash(c) ELSE id[1]

\* The row store_contract binds for contract c and the id it is given.
ContractRowWithId(c, id) == [ContractRow(c) EXCEPT !.id = RowId(c, id)]

\* One execution of a plain INSERT into a table whose primary key is `id`:
\* the table after it, or the constraint error.
Insert(table, row) ==
    IF \E k \in DOMAIN table : table[k].id = row.id
    THEN Err("Constraint Error: Duplicate key")
    ELSE Ok(Append(table, row))

\* SELECT .. FROM contract WHERE id = ? limit 1, then row_to_contract
get_contract(table, id) ==
    IF \E k \in DOMAIN table : table[k].id = id
    THEN Ok(Some(row_to_contract(table[CHOOSE k \in DOMAIN table : table[k].id = id])))
    ELSE Ok(None)

RowSamples ==
    {PlainContract(Metadata("N1", "v0.8.0"),
                   ContractSource("single_sol", <<SourceFile("main.sol", Txt_a)>>)),
     PlainContract(Metadata("N2", "v0.8.0"),
                   ContractSource("vyper", <<SourceFile("main.vy", Txt_b)>>))}

\* The ids a caller may hand to store_contract: none, a text of its own, the
\* hash of a contract.
IdArguments == {None, Some(<<"x">>)} \cup {Some(ContractHash(c)) : c \in RowSamples}

InitRows ==
    /\ contract = <<>>
    /\ StoreIdle
    /\ IndexIdle
    /\ CompileIdle
    /\ CallIdle

\* Storage::store_contracts(contracts)
StoreContractsCall(contracts) ==
    /\ contract' = StoreContractsInto(contract, contracts)
    /\ call' = [method |-> "store_contracts"]
    /\ call_result' = Ok(<<>>)
    /\ UNCHANGED <<subject, scope, disk, storeVars, indexVars, compileVars>>

\* Storage::store_contract(c, id)
StoreContractCall(c, id) ==
    /\ call' = [method |-> "store_contract", id |-> RowId(c, id), given |-> id # None]
    /\ \E inserted \in {Insert(contract, ContractRowWithId(c, id))} :
          IF inserted.kind = "Ok"
          THEN contract' = inserted.value /\ call_result' = Ok(<<>>)
          ELSE contract' = contract /\ call_result' = inserted
    /\ UNCHANGED <<subject, scope, disk, storeVars, indexVars, compileVars>>

\* Storage::get_contract(id)
GetContractCall(id) ==
    /\ call' = [method |-> "get_contract", id |-> id]
    /\ call_result' = get_contract(contract, id)
    /\ UNCHANGED <<contract, subject, scope, disk, storeVars, indexVars, compileVars>>

NextRows ==
    \/ \E contracts \in SeqsUpTo(RowSamples, MaxBatch) : StoreContractsCall(contracts)
    \/ \E c \in RowSamples, id \in IdArguments : StoreContractCall(c, id)
    \/ \E id \in IdArguments \ {None} : GetContractCall(id[1])

SpecRows == InitRows /\ [][NextRows]_vars

-----------------------------------------------------------------------------
(* functions.rs and plain_contract.rs: the rows a compiled contract yields *)

FileMain == <<"m">>

\* One function of an ABI: its name, signature() and selector() (the text that
\* format!("0x{:04x}") gives).
AbiFunction(name) == [name |-> name, signature |-> name \o <<"(", ")">>,
                      selector |-> <<"0", "x">> \o name]

\* ContractFunction::from_abi
from_abi(contract_id, filename, contract_name, f, source_code) ==
    [id |-> simple_hash(contract_id \o filename \o f.selector),
     contract_id |-> contract_id,
     contract_name |-> contract_name,
     function_name |-> f.name,
     filename |-> filename,
     signature |-> f.signature,
     selector |-> f.selector,
     source_code |-> source_code]

\* What the toolchain gives for a contract that compiles: its artifacts, each a
\* named contract with the file its AST belongs to and its ABI. One contract,
\* two contracts of one file exposing the same function, or one contract with
\* two functions, by the length of the contract's first file.
ArtifactsOf(c) ==
    LET n == Len(c.source.files[1].content) IN
    IF n = 1 THEN <<[name |-> <<"A">>, file |-> FileMain, abi |-> <<AbiFunction(<<"a">>)>>]>>
    ELSE IF n = 2
    THEN <<[name |-> <<"A">>, file |-> FileMain, abi |-> <<AbiFunction(<<"a">>)>>],
           [name |-> <<"B">>, file |-> FileMain, abi |-> <<AbiFunction(<<"a">>)>>]>>
    ELSE <<[name |-> <<"A">>, file |-> FileMain,
            abi |-> <<AbiFunction(<<"a">>), AbiFunction(<<"b">>)>>]>>

-----------------------------------------------------------------------------
(* plain_contract.rs: the AST search of source_code_by_contract_and_function_name *)

\* An AST node: its type, its "name" attribute, its source location and its
\* child nodes.
SourceLocation(start, length, index) == [start |-> start, length |-> length, index |-> index]
Node(node_type, name, src, nodes) ==
    [node_type |-> node_type, name |-> name, src |-> src, nodes |-> nodes]

\* A compiled PlainContract: metadata, source, compilation_output (the
\* artifacts, each with its name, its file, its ABI and the AST of its source
\* file) and source_files.
Artifact(name, file, abi, ast) == [name |-> name, file |-> file, abi |-> abi, ast |-> ast]
Ast(absolute_path, nodes) == [absolute_path |-> absolute_path, nodes |-> nodes]
Compiled(c, compilation_output, source_files) ==
    [metadata |-> c.metadata, source |-> c.source,
     compilation_output |-> compilation_output, source_files |-> source_files]

\* A faulty variant of NormalizeLineEndings: the content sliced as it was read.
KeepLineEndings(content) == content

\* content.replace("\r\n", "\n")
RECURSIVE NormalizeLineEndings(_)
NormalizeLineEndings(content) ==
    IF content = <<>> THEN <<>>
    ELSE IF Len(content) >= 2 /\ content[1] = "\r" /\ content[2] = "\n"
    THEN <<"\n">> \o NormalizeLineEndings(SubSeq(content, 3, Len(content)))
    ELSE <<content[1]>> \o NormalizeLineEndings(Tail(content))

\* The bytes of the one two-byte character of the model, "L" then "T"; every
\* other byte is a character of its own. What from_utf8_lossy puts for a byte
\* that is part of no character.
LeadByte == "L"
ContinuationByte == "T"
ReplacementCharacter == "?"

\* String::from_utf8_lossy
RECURSIVE from_utf8_lossy(_)
from_utf8_lossy(bytes) ==
    IF bytes = <<>> THEN <<>>
    ELSE IF bytes[1] = LeadByte /\ Len(bytes) >= 2 /\ bytes[2] = ContinuationByte
    THEN <<LeadByte, ContinuationByte>> \o from_utf8_lossy(SubSeq(bytes, 3, Len(bytes)))
    ELSE IF bytes[1] \in {LeadByte, ContinuationByte}
    THEN <<ReplacementCharacter>> \o from_utf8_lossy(Tail(bytes))
    ELSE <<bytes[1]>> \o from_utf8_lossy(Tail(bytes))

\* while nodes.len() > 1
LoopContinues(nodes) == Len(nodes) > 1

\* nodes.pop() and what it leaves
Popped(nodes) == nodes[Len(nodes)]
AfterPop(nodes) == SubSeq(nodes, 1, Len(nodes) - 1)

\* ContractDefinition if node.attribute::<String>("name") == Some(contract_name.into())
IsContractNamed(node, contract_name) ==
    node.node_type = "ContractDefinition" /\ node.name = Some(contract_name)

\* The first loop: nodes_in_contract when it ends.
RECURSIVE ContractSearch(_, _)
ContractSearch(nodes_in_source, contract_name) ==
    IF ~LoopContinues(nodes_in_source) THEN <<>>
    ELSE LET node == Popped(nodes_in_source) IN
         IF IsContractNamed(node, contract_name)
         THEN node.nodes
         ELSE ContractSearch(AfterPop(nodes_in_source) \o node.nodes, contract_name)

\* The body of the match arm of the second loop: the slice of the content at
\* the node's source location.
SourceOfNode(node, content) ==
    IF node.src.index = None THEN Panic("No file index in source location")
    ELSE IF node.src.length = None THEN Panic("No length in source location")
    ELSE LET start == node.src.start
             length == node.src.length[1]
         IN IF start + length > Len(content)
            THEN Panic("range end index out of range for slice")
            ELSE Ok(from_utf8_lossy(SubSeq(content, start + 1, start + length)))

\* A faulty variant of IsFunctionNamed: any function definition is taken.
IsFunctionAny(node, function_name) == TRUE

\* Some(name) if name == function_name
IsFunctionNamed(node, function_name) == node.name = Some(function_name)

\* The second loop, and the Err after it.
RECURSIVE FunctionSearch(_, _, _)
FunctionSearch(nodes_in_contract, function_name, content) ==
    IF ~LoopContinues(nodes_in_contract) THEN Err("Function not found")
    ELSE LET node == Popped(nodes_in_contract) IN
         IF node.node_type = "FunctionDefinition"
         THEN IF IsFunctionNamed(node, function_name)
              THEN SourceOfNode(node, content)
              ELSE FunctionSearch(AfterPop(nodes_in_contract), function_name, content)
         ELSE FunctionSearch(AfterPop(nodes_in_contract) \o node.nodes,
                             function_name, content)

\* .find(...) over a sequence: the position of the first element with the
\* name, 0 when there is none.
FindNamed(items, name) ==
    IF \E k \in DOMAIN items : items[k].name = name
    THEN CHOOSE k \in DOMAIN items :
            /\ items[k].name = name
            /\ \A l \in 1..(k - 1) : items[l].name # name
    ELSE 0

\* The artifact found for contract_name, and the file it belongs to.
ArtifactNamed(pc, contract_name) ==
    pc.compilation_output[1][FindNamed(pc.compilation_output[1], contract_name)]

\* The `.context(...)?` returns before the loops: the message of the first
\* that applies, None when the loops are reached.
SearchSetupError(pc, contract_name) ==
    IF pc.compilation_output = None
    THEN Some("No compilation output, did you forget to call compile()?")
    ELSE IF FindNamed(pc.compilation_output[1], contract_name) = 0
    THEN Some("Contract not found")
    ELSE IF pc.source_files = None
    THEN Some("No source files in PlainContract")
    ELSE IF FindNamed(pc.source_files[1], ArtifactNamed(pc, contract_name).file) = 0
    THEN Some("No source file matches the expected file name")
    ELSE None

\* nodes_in_source before the first loop: the top-level nodes of the AST of
\* the artifact's source file, none when there is no AST.
NodesInSource(pc, contract_name) ==
    LET ast == ArtifactNamed(pc, contract_name).ast IN
    IF ast = None THEN <<>> ELSE ast[1].nodes

\* The content of the source file named as the artifact's file.
ContentOf(pc, contract_name) ==
    pc.source_files[1][FindNamed(pc.source_files[1],
                                 ArtifactNamed(pc, contract_name).file)].content

\* nodes_in_contract after the first loop (empty when the call returned
\* before it).
NodesInContract(pc, contract_name) ==
    IF SearchSetupError(pc, contract_name) # None THEN <<>>
    ELSE ContractSearch(NodesInSource(pc, contract_name), contract_name)

\* PlainContract::source_code_by_contract_and_function_name
source_code_by_contract_and_function_name(pc, contract_name, function_name) ==
    IF SearchSetupError(pc, contract_name) # None
    THEN Err(SearchSetupError(pc, contract_name)[1])
    ELSE FunctionSearch(NodesInContract(pc, contract_name), function_name,
                        NormalizeLineEndings(ContentOf(pc, contract_name)))

-----------------------------------------------------------------------------
(* plain_contract.rs: extract_functions *)

\* A faulty variant of AbiFunctionsOf: only the first function of an ABI.
AbiFunctionsFirst(artifact) ==
    IF artifact.abi = None THEN <<>> ELSE SubSeq(artifact.abi[1], 1, 1)

\* if let Some(ref abi) = contract.abi { abi.functions() ... } else { vec![] }
AbiFunctionsOf(artifact) ==
    IF artifact.abi = None THEN <<>> ELSE artifact.abi[1]

\* A faulty variant of SourceOrEmpty: the error message kept as the source.
SourceOrMessage(r) == r.value

\* .unwrap_or("".into())
SourceOrEmpty(r) == IF r.kind = "Ok" THEN r.value ELSE <<>>

\* filename: the absolute_path of the artifact's AST, or ""
FilenameOf(artifact) ==
    IF artifact.ast = None THEN <<>> ELSE artifact.ast[1].absolute_path

\* The closure over one ABI function f of one artifact.
FunctionRow(pc, artifact, f) ==
    from_abi(ContractId(pc), FilenameOf(artifact), artifact.name, f,
             SourceOrEmpty(source_code_by_contract_and_function_name(
                               pc, artifact.name, f.name)))

\* The (artifact, function) pairs the closures run over, in order.
AbiPairs(pc) ==
    LET arts == pc.compilation_output[1] IN
    Flatten([k \in DOMAIN arts |->
               [j \in DOMAIN AbiFunctionsOf(arts[k]) |->
                  [artifact |-> arts[k], f |-> AbiFunctionsOf(arts[k])[j]]]])

\* PlainContract::extract_functions: Err without compilation output, the
\* panic of a source search that panics, else the rows.
ExtractFunctions(pc) ==
    IF pc.compilation_output = None THEN Err("No compilation output")
    ELSE LET pairs == AbiPairs(pc)
             search(k) == source_code_by_contract_and_function_name(
                              pc, pairs[k].artifact.name, pairs[k].f.name)
         IN IF \E k \in DOMAIN pairs : search(k).kind = "panic"
            THEN search(CHOOSE k \in DOMAIN pairs :
                           /\ search(k).kind = "panic"
                           /\ \A l \in 1..(k - 1) : search(l).kind # "panic")
            ELSE Ok([k \in DOMAIN pairs |-> FunctionRow(pc, pairs[k].artifact, pairs[k].f)])

\* What compile() leaves in a contract that compiles, for the contracts
\* index_functions is run on: the artifacts with their ABIs, ASTs without
\* nodes, and the contract's own source files.
CompiledForIndex(c) ==
    LET arts == ArtifactsOf(c) IN
    Compiled(c,
             Some([k \in DOMAIN arts |->
                     Artifact(arts[k].name, arts[k].file, Some(arts[k].abi),
                              Some(Ast(arts[k].file, <<>>)))]),
             Some(c.source.files))

\* compile() and then extract_functions() on a contract that compiles: the
\* rows (the source text of each function is empty, the ASTs have no nodes).
extract_functions(c) == ExtractFunctions(CompiledForIndex(c)).value

-----------------------------------------------------------------------------
(* main.rs: index_functions *)

\* The contracts index_functions is run on: position k holds k characters of
\* code in the file FileMain, as the given source variant. index_functions tells the variants apart
\* only as Vyper or not.
IndexSourceTypes == {"single_sol", "vyper"}

IndexSample(k, type) ==
    PlainContract(Metadata("C", "v0.8.0"),
                  ContractSource(type, <<SourceFile(FileMain, [j \in 1..k |-> "a"])>>))

\* What the toolchain and the AST give for a contract, fixed per contract.
Outcomes == {"compiled", "compile_err", "extract_panic"}

\* The contract positions of the page "offset ? limit {size}" of a table of n rows.
PagePositions(offset, limit, n) == (offset + 1)..Min(offset + limit, n)

\* The page the current iteration queried.
CurrentOffset == fetched[Len(fetched)]
CurrentPage == PagePositions(CurrentOffset, size, Len(contract))

\* A faulty variant of NextOffset: the page index taken for the row offset.
NextOffsetByOne(offset, limit) == offset + 1

\* i += size
NextOffset(offset, limit) == offset + limit

\* A faulty variant of IsVyper: the skip left out.
IsVyperNever(c) == FALSE

\* matches!(contract.source, ContractSource::Vyper(_))
IsVyper(c) == c.source.type = "vyper"

\* A faulty variant of AfterCompileErr: the error unwrapped instead of logged.
AfterCompileErrPanic == "panicked"

\* What a unit does when compile() returns Err: it logs and returns.
AfterCompileErr == "done"

\* A faulty variant of JoinReady: the first unit to finish ends the wait.
JoinFirst(tasks, page) == page = {} \/ \E p \in page : tasks[p] = "done"

\* try_join_all(compile_futures) is ready with Ok: every handle gave Ok.
JoinReady(tasks, page) == \A p \in page : tasks[p] = "done"

\* try_join_all(compile_futures) is ready with Err: some handle gave a JoinError.
JoinFailed(tasks, page) == \E p \in page : tasks[p] = "panicked"

\* A faulty variant of MutexFree: the accumulator shared without its Mutex.
MutexIgnored(m) == TRUE

\* functions.lock().await can return the guard.
MutexFree(m) == m = 0

\* A faulty variant of Extend: the accumulator assigned instead of extended.
ExtendOverwrite(acc, funcs) == funcs

\* functions.extend(funcs)
Extend(acc, funcs) == acc \o funcs

IndexTables ==
    UNION {{[k \in 1..n |-> ContractRow(IndexSample(k, types[k]))] :
              types \in [1..n -> IndexSourceTypes]} : n \in 0..MaxContracts}

InitIndex ==
    /\ contract \in IndexTables
    /\ size \in 0..MaxChunk
    /\ outcome \in {o \in [DOMAIN contract -> Outcomes] :
                      \A p \in DOMAIN contract :
                        contract[p].source_type = "vyper" => o[p] = "compiled"}
    /\ function = <<>>
    /\ total_countracts = 0
    /\ i = 0
    /\ opc = "start"
    /\ task = [p \in DOMAIN contract |-> "none"]
    /\ functions = <<>>
    /\ mutex = 0
    /\ handed = [p \in DOMAIN contract |-> 0]
    /\ fetched = <<>>
    /\ stored = {}
    /\ compile_called = {}
    /\ runs = 0
    /\ function_first = <<>>
    /\ StoreIdle
    /\ CompileIdle
    /\ CallIdle

rerunVars == <<runs, function_first>>
orchVars == <<function, total_countracts, size, i, opc, outcome, handed, fetched, stored,
              rerunVars>>

\* let total_countracts = storage.count_contracts()?; let mut i = 0;
Enter ==
    /\ opc = "start"
    /\ total_countracts' = count_contracts(contract)
    /\ i' = 0
    /\ opc' = "loop"
    /\ UNCHANGED <<callVars, contract, function, size, task, outcome, functions, mutex, handed,
                   fetched, stored, compile_called, rerunVars, storeVars,
                   compileVars>>

\* if i >= total_countracts { break; } ... Ok(())
LoopBreak ==
    /\ opc = "loop"
    /\ i >= total_countracts
    /\ opc' = "done"
    /\ UNCHANGED <<callVars, contract, function, total_countracts, size, i, task, outcome, functions,
                   mutex, handed, fetched, stored, compile_called, rerunVars, storeVars,
                   compileVars>>

\* The query of the page at offset i, a fresh accumulator, and one spawned
\* unit per contract of the page.
FetchAndSpawn ==
    /\ opc = "loop"
    /\ i < total_countracts
    /\ Len(fetched) < MaxFetch
    /\ LET page == PagePositions(i, size, Len(contract)) IN
         /\ task' = [p \in DOMAIN task |-> IF p \in page THEN "spawned" ELSE task[p]]
         /\ handed' = [p \in DOMAIN handed |-> IF p \in page THEN handed[p] + 1 ELSE handed[p]]
    /\ fetched' = Append(fetched, i)
    /\ functions' = <<>>
    /\ mutex' = 0
    /\ opc' = "join"
    /\ UNCHANGED <<callVars, contract, function, total_countracts, size, i, outcome, stored,
                   compile_called, rerunVars, storeVars,
                   compileVars>>

\* try_join_all(compile_futures).await gave Ok; i += size
JoinOk ==
    /\ opc = "join"
    /\ JoinReady(task, CurrentPage)
    /\ i' = NextOffset(i, size)
    /\ opc' = "lock"
    /\ UNCHANGED <<callVars, contract, function, total_countracts, size, task, outcome, functions,
                   mutex, handed, fetched, stored, compile_called, rerunVars, storeVars,
                   compileVars>>

\* try_join_all(compile_futures).await? gave a JoinError: index_functions returns it
JoinErr ==
    /\ opc = "join"
    /\ JoinFailed(task, CurrentPage)
    /\ opc' = "failed"
    /\ UNCHANGED <<callVars, contract, function, total_countracts, size, i, task, outcome, functions,
                   mutex, handed, fetched, stored, compile_called, rerunVars, storeVars,
                   compileVars>>

\* let functions = functions.lock().await;
OrchLock ==
    /\ opc = "lock"
    /\ MutexFree(mutex)
    /\ mutex' = -1
    /\ opc' = "store"
    /\ UNCHANGED <<callVars, contract, function, total_countracts, size, i, task, outcome, functions,
                   handed, fetched, stored, compile_called, rerunVars, storeVars,
                   compileVars>>

\* storage.store_functions(&functions)?; the guard is dropped as the iteration ends
StoreFunctions ==
    /\ opc = "store"
    /\ function' = StoreFunctionsInto(function, functions)
    /\ stored' = stored \cup {CurrentOffset}
    /\ mutex' = 0
    /\ opc' = "loop"
    /\ UNCHANGED <<callVars, contract, total_countracts, size, i, task, outcome, functions, handed,
                   fetched, compile_called, rerunVars, storeVars,
                   compileVars>>

\* ---- the spawned unit of the contract at position p ----

UnitContract(p) == row_to_contract(contract[p])

\* if matches!(contract.source, ContractSource::Vyper(_)) { return; }
UnitSkipVyper(p) ==
    /\ task[p] = "spawned"
    /\ IsVyper(UnitContract(p))
    /\ task' = [task EXCEPT ![p] = "done"]
    /\ UNCHANGED <<callVars, contract, orchVars, functions, mutex, compile_called, storeVars,
                   compileVars>>

\* contract.compile() is called
UnitCompileCall(p) ==
    /\ task[p] = "spawned"
    /\ ~IsVyper(UnitContract(p))
    /\ task' = [task EXCEPT ![p] = "compiling"]
    /\ compile_called' = compile_called \cup {p}
    /\ UNCHANGED <<callVars, contract, orchVars, functions, mutex, storeVars, compileVars>>

\* if let Err(e) = contract.compile().await { error!(...); return; }
UnitCompileErr(p) ==
    /\ task[p] = "compiling"
    /\ outcome[p] = "compile_err"
    /\ task' = [task EXCEPT ![p] = AfterCompileErr]
    /\ UNCHANGED <<callVars, contract, orchVars, functions, mutex, compile_called, storeVars,
                   compileVars>>

\* compile() gave Ok and contract.extract_functions() gave Ok(funcs)
UnitExtract(p) ==
    /\ task[p] = "compiling"
    /\ outcome[p] = "compiled"
    /\ task' = [task EXCEPT ![p] = "lock_wait"]
    /\ UNCHANGED <<callVars, contract, orchVars, functions, mutex, compile_called, storeVars,
                   compileVars>>

\* compile() gave Ok and the unit panics in extraction: extract_functions gave
\* Err (panic! of the unit), or the source location of a matched function has
\* no file index or no length (expect), or lies outside the file's content
\* (the slice of the bytes)
UnitExtractPanic(p) ==
    /\ task[p] = "compiling"
    /\ outcome[p] = "extract_panic"
    /\ task' = [task EXCEPT ![p] = "panicked"]
    /\ UNCHANGED <<callVars, contract, orchVars, functions, mutex, compile_called, storeVars,
                   compileVars>>

\* let mut functions = functions.lock().await;
UnitLock(p) ==
    /\ task[p] = "lock_wait"
    /\ MutexFree(mutex)
    /\ mutex' = p
    /\ task' = [task EXCEPT ![p] = "appending"]
    /\ UNCHANGED <<callVars, contract, orchVars, functions, compile_called, storeVars, compileVars>>

\* functions.extend(funcs); the guard is dropped and the unit ends
UnitExtend(p) ==
    /\ task[p] = "appending"
    /\ functions' = Extend(functions, extract_functions(UnitContract(p)))
    /\ mutex' = 0
    /\ task' = [task EXCEPT ![p] = "done"]
    /\ UNCHANGED <<callVars, contract, orchVars, compile_called, storeVars, compileVars>>

Next ==
    \/ Enter
    \/ LoopBreak
    \/ FetchAndSpawn
    \/ JoinOk
    \/ JoinErr
    \/ OrchLock
    \/ StoreFunctions
    \/ \E p \in DOMAIN task : UnitSkipVyper(p)
    \/ \E p \in DOMAIN task : UnitCompileCall(p)
    \/ \E p \in DOMAIN task : UnitCompileErr(p)
    \/ \E p \in DOMAIN task : UnitExtract(p)
    \/ \E p \in DOMAIN task : UnitExtractPanic(p)
    \/ \E p \in DOMAIN task : UnitLock(p)
    \/ \E p \in DOMAIN task : UnitExtend(p)

Spec == InitIndex /\ [][Next]_vars

-----------------------------------------------------------------------------
(* SpecLive: index_functions with units whose toolchain may never return,
   under the scheduling the runtime gives *)

\* What the toolchain and the AST give for a contract when the toolchain may
\* hang: compile() of a "hang" contract never returns.
LiveOutcomes == Outcomes \cup {"hang"}

InitLive ==
    /\ contract \in UNION {{[k \in 1..n |-> ContractRow(IndexSample(k, types[k]))] :
                              types \in [1..n -> IndexSourceTypes]} : n \in 0..MaxLive}
    /\ size \in 1..MaxChunk
    /\ outcome \in {o \in [DOMAIN contract -> LiveOutcomes] :
                      \A p \in DOMAIN contract :
                        contract[p].source_type = "vyper" => o[p] = "compiled"}
    /\ function = <<>>
    /\ total_countracts = 0
    /\ i = 0
    /\ opc = "start"
    /\ task = [p \in DOMAIN contract |-> "none"]
    /\ functions = <<>>
    /\ mutex = 0
    /\ handed = [p \in DOMAIN contract |-> 0]
    /\ fetched = <<>>
    /\ stored = {}
    /\ compile_called = {}
    /\ runs = 0
    /\ function_first = <<>>
    /\ StoreIdle
    /\ CompileIdle
    /\ CallIdle

\* The steps of index_functions itself.
Orchestrator == Enter \/ LoopBreak \/ FetchAndSpawn \/ JoinOk \/ JoinErr \/ OrchLock
                \/ StoreFunctions

\* The steps of the unit of contract position p other than taking the Mutex.
UnitRun(p) ==
    \/ UnitSkipVyper(p)
    \/ UnitCompileCall(p)
    \/ UnitCompileErr(p)
    \/ UnitExtract(p)
    \/ UnitExtractPanic(p)
    \/ UnitExtend(p)

\* index_functions is awaited by main and runs whenever it can; the
\* multi-thread runtime runs every spawned unit that can run; the Mutex of
\* tokio hands the lock to its waiters in turn, so a waiting unit gets it.
Scheduling ==
    /\ WF_vars(Orchestrator)
    /\ \A p \in 1..MaxLive : WF_vars(p \in DOMAIN task /\ UnitRun(p))
    /\ \A p \in 1..MaxLive : SF_vars(p \in DOMAIN task /\ UnitLock(p))

SpecLive == InitLive /\ [][Next]_vars /\ Scheduling

-----------------------------------------------------------------------------
(* SpecReindex: index_functions, and once it has returned Ok, the command
   given a second time on the same database file, with any chunk size *)

InitReindex ==
    /\ InitIndex
    /\ Len(contract) <= MaxReindex

\* main: Storage::new on the existing file (its CREATE TABLE batch fails and
\* the failure is dropped, the tables stay as they are), then index_functions
\* from its first line with the chunk size of the new command line.
Rerun ==
    /\ opc = "done"
    /\ runs = 0
    /\ runs' = 1
    /\ function_first' = function
    /\ size' \in 0..MaxChunk
    /\ opc' = "start"
    /\ total_countracts' = 0
    /\ i' = 0
    /\ task' = [p \in DOMAIN contract |-> "none"]
    /\ functions' = <<>>
    /\ handed' = [p \in DOMAIN contract |-> 0]
    /\ fetched' = <<>>
    /\ stored' = {}
    /\ compile_called' = {}
    /\ UNCHANGED <<callVars, contract, function, outcome, mutex, storeVars, compileVars>>

NextReindex ==
    \/ Next
    \/ Rerun

SpecReindex == InitReindex /\ [][NextReindex]_vars

-----------------------------------------------------------------------------
(* SpecExtract: source_code_by_contract_and_function_name and
   extract_functions called on a compiled contract *)

FileOther == <<"o">>

Name_A == <<"A">>
Name_B == <<"B">>
Name_I == <<"I">>
Name_Z == <<"Z">>
Name_f == <<"f">>
Name_g == <<"g">>
Name_c == <<"c">>

\* A file whose five bytes are the texts of five nodes, and the locations of
\* four of them: function f of contract A, function g, function f of the
\* contract A nested in another node, function f of contract B.
DemoContent == <<"v", "f", "g", "w", "b">>
Src_f == SourceLocation(1, Some(1), Some(0))
Src_g == SourceLocation(2, Some(1), Some(0))
Src_w == SourceLocation(3, Some(1), Some(0))
Src_b == SourceLocation(4, Some(1), Some(0))
Src_none == SourceLocation(0, Some(0), Some(0))

\* Contents with line endings to normalize, with lone "\r" and "\n", and with
\* the two-byte character.
ContentSamples ==
    {DemoContent,
     <<"\r", "\n", "f", "\r", "\n">>,
     <<"\r", "f", "\n">>,
     <<"v", LeadByte, ContinuationByte, "f">>}

\* The member nodes of a contract definition, by kind: a public state
\* variable c, the function f (at the location src_f), the function g.
MemberKinds == {"v", "f", "g"}
MemberNode(kind, src_f) ==
    CASE kind = "v" -> Node("VariableDeclaration", Some(Name_c), Src_none, <<>>)
      [] kind = "f" -> Node("FunctionDefinition", Some(Name_f), src_f, <<>>)
      [] kind = "g" -> Node("FunctionDefinition", Some(Name_g), Src_g, <<>>)

MembersOf(kinds, src_f) == [k \in DOMAIN kinds |-> MemberNode(kinds[k], src_f)]

\* The top-level nodes of a file, by kind: a pragma, contract A with the given
\* members, contract B, and a node that is no contract definition holding
\* another definition of contract A.
TopKinds == {"P", "A", "B", "W"}
TopNode(kind, members) ==
    CASE kind = "P" -> Node("PragmaDirective", None, Src_none, <<>>)
      [] kind = "A" -> Node("ContractDefinition", Some(Name_A), Src_none, members)
      [] kind = "B" -> Node("ContractDefinition", Some(Name_B), Src_none,
                            MembersOf(<<"v", "f">>, Src_b))
      [] kind = "W" -> Node("Other", None, Src_none,
                            <<Node("ContractDefinition", Some(Name_A), Src_none,
                                   MembersOf(<<"v", "f">>, Src_w))>>)

\* The ABI of contract A: f (its own or inherited), g when it is a member,
\* the getter c when the state variable is a member.
AbiOfA(member_kinds) ==
    <<AbiFunction(Name_f)>>
    \o (IF "g" \in Range(member_kinds) THEN <<AbiFunction(Name_g)>> ELSE <<>>)
    \o (IF "v" \in Range(member_kinds) THEN <<AbiFunction(Name_c)>> ELSE <<>>)

\* A contract as compile() left it: one file FileMain with the given AST,
\* the artifacts A, B and I (I without an ABI), and the source files.
CompiledSample(top_kinds, member_kinds, src_f, content, file_name) ==
    LET ast == Some(Ast(FileMain,
                        [k \in DOMAIN top_kinds |->
                           TopNode(top_kinds[k], MembersOf(member_kinds, src_f))]))
        c == PlainContract(Metadata("Counter", "v0.8.0"),
                           ContractSource("single_sol", <<SourceFile(file_name, content)>>))
    IN Compiled(c,
                Some(<<Artifact(Name_A, FileMain, Some(AbiOfA(member_kinds)), ast),
                       Artifact(Name_B, FileMain,
                                Some(<<AbiFunction(Name_f), AbiFunction(Name_c)>>), ast),
                       Artifact(Name_I, FileMain, None, ast)>>),
                Some(c.source.files))

\* The source locations tried for function f.
SourceLocations ==
    {SourceLocation(start, length, index) :
        start \in 0..MaxStart,
        length \in {None} \cup {Some(n) : n \in 0..MaxLength},
        index \in {None, Some(0)}}

\* Every shape of the AST with the demo content, and every content, location
\* and file name with one AST.
ExtractSubjects ==
    {CompiledSample(top_kinds, member_kinds, Src_f, DemoContent, FileMain) :
        top_kinds \in SeqsUpTo(TopKinds, MaxTop),
        member_kinds \in SeqsUpTo(MemberKinds, MaxMembers)}
    \cup
    {CompiledSample(<<"P", "A">>, <<"v", "f">>, src_f, content, file_name) :
        src_f \in SourceLocations,
        content \in ContentSamples,
        file_name \in {FileMain, FileOther}}

InitExtract ==
    /\ subject \in ExtractSubjects
    /\ call = <<>>
    /\ call_result = <<>>
    /\ scope = <<>>
    /\ disk = EmptyDisk
    /\ contract = <<>>
    /\ StoreIdle
    /\ IndexIdle
    /\ CompileIdle

\* subject.source_code_by_contract_and_function_name(contract_name, function_name)
SourceCodeCall(contract_name, function_name) ==
    /\ call' = [method |-> "source_code_by_contract_and_function_name",
                contract_name |-> contract_name, function_name |-> function_name]
    /\ call_result' = source_code_by_contract_and_function_name(
                          subject, contract_name, function_name)
    /\ scope' = NodesInContract(subject, contract_name)
    /\ UNCHANGED <<subject, disk, contract, storeVars, indexVars, compileVars>>

\* subject.extract_functions()
ExtractFunctionsCall ==
    /\ call' = [method |-> "extract_functions"]
    /\ call_result' = ExtractFunctions(subject)
    /\ scope' = <<>>
    /\ UNCHANGED <<subject, disk, contract, storeVars, indexVars, compileVars>>

NextExtract ==
    \/ \E contract_name \in {Name_A, Name_B, Name_Z} :
          \E function_name \in {Name_f, Name_g, Name_c} :
             SourceCodeCall(contract_name, function_name)
    \/ ExtractFunctionsCall

SpecExtract == InitExtract /\ [][NextExtract]_vars

-----------------------------------------------------------------------------
(* SpecOverload: the source search and extract_functions called on a contract
   that overloads a function *)

\* One function of an ABI that takes an argument: its name, signature() and
\* selector(), both made from the name and the argument type.
AbiFunctionWith(name, argument) ==
    [name |-> name, signature |-> name \o <<"(">> \o argument \o <<")">>,
     selector |-> <<"0", "x">> \o name \o argument]

\* A file of four bytes, the texts of four member nodes: the state variable,
\* f(u), f(a) and g().
OverloadContent == <<"v", "u", "a", "g">>

\* The member nodes by kind: a state variable, the definition of f(u), the
\* definition of f(a), the definition of g(). Both definitions of f carry the
\* name f.
OverloadKinds == {"v", "fu", "fa", "g"}
OverloadMember(kind) ==
    CASE kind = "v" -> Node("VariableDeclaration", Some(Name_c), Src_none, <<>>)
      [] kind = "fu" -> Node("FunctionDefinition", Some(Name_f),
                             SourceLocation(1, Some(1), Some(0)), <<>>)
      [] kind = "fa" -> Node("FunctionDefinition", Some(Name_f),
                             SourceLocation(2, Some(1), Some(0)), <<>>)
      [] kind = "g" -> Node("FunctionDefinition", Some(Name_g),
                            SourceLocation(3, Some(1), Some(0)), <<>>)

\* The ABI of the contract: one entry per function definition.
OverloadAbi(kinds) ==
    (IF "fu" \in Range(kinds) THEN <<AbiFunctionWith(Name_f, <<"u">>)>> ELSE <<>>)
    \o (IF "fa" \in Range(kinds) THEN <<AbiFunctionWith(Name_f, <<"a">>)>> ELSE <<>>)
    \o (IF "g" \in Range(kinds) THEN <<AbiFunction(Name_g)>> ELSE <<>>)

\* A contract as compile() left it: one file FileMain whose AST is a pragma
\* and contract A with the given members (each kind at most once), and the
\* artifact A.
CompiledOverload(kinds) ==
    LET ast == Some(Ast(FileMain,
                        <<Node("PragmaDirective", None, Src_none, <<>>),
                          Node("ContractDefinition", Some(Name_A), Src_none,
                               [k \in DOMAIN kinds |-> OverloadMember(kinds[k])])>>))
        c == PlainContract(Metadata("Counter", "v0.8.0"),
                           ContractSource("single_sol",
                                          <<SourceFile(FileMain, OverloadContent)>>))
    IN Compiled(c, Some(<<Artifact(Name_A, FileMain, Some(OverloadAbi(kinds)), ast)>>),
                Some(c.source.files))

InitOverload ==
    /\ subject \in {CompiledOverload(kinds) :
                       kinds \in {ks \in SeqsUpTo(OverloadKinds, MaxOverloadMembers) :
                                     Cardinality(Range(ks)) = Len(ks)}}
    /\ call = <<>>
    /\ call_result = <<>>
    /\ scope = <<>>
    /\ disk = EmptyDisk
    /\ contract = <<>>
    /\ StoreIdle
    /\ IndexIdle
    /\ CompileIdle

NextOverload ==
    \/ \E function_name \in {Name_f, Name_g} : SourceCodeCall(Name_A, function_name)
    \/ ExtractFunctionsCall

SpecOverload == InitOverload /\ [][NextOverload]_vars

-----------------------------------------------------------------------------
(* SpecSource: ContractSource::hash and get_source_files called on a source *)

HashAlphabet == {"a", "b"} \cup Whitespace
MultiAlphabet == {"a", " "}
FileNames == <<"A", "B", "C", "D", "E">>
NameAt(k) == <<FileNames[k]>>

\* The sources of one file, of the plain variants and of the Json variant
\* (a document embedding one file), and the multi-file sources.
SourceSubjects ==
    {ContractSource(type, <<SourceFile(NameAt(1), content)>>) :
        type \in {"single_sol", "vyper"},
        content \in SeqsUpTo(HashAlphabet, MaxContent)}
    \cup
    {ContractSource("json",
                    <<SourceFile(<<"j">>, JsonDocument(<<SourceFile(NameAt(1), content)>>))>>) :
        content \in SeqsUpTo(HashAlphabet, MaxContent)}
    \cup
    {ContractSource("multi_sol", [k \in DOMAIN contents |-> SourceFile(NameAt(k), contents[k])]) :
        contents \in SeqsUpTo(SeqsUpTo(MultiAlphabet, MaxMultiContent), MaxFiles)}

InitSource ==
    /\ subject \in SourceSubjects
    /\ call = <<>>
    /\ call_result = <<>>
    /\ scope = <<>>
    /\ disk = EmptyDisk
    /\ contract = <<>>
    /\ StoreIdle
    /\ IndexIdle
    /\ CompileIdle

\* subject.hash()
HashCall ==
    /\ call' = [method |-> "hash"]
    /\ call_result' = ContractSourceHash(subject)
    /\ UNCHANGED <<subject, scope, disk, contract, storeVars, indexVars, compileVars>>

\* subject.get_source_files()
GetSourceFilesCall ==
    /\ call' = [method |-> "get_source_files"]
    /\ call_result' = get_source_files(subject)
    /\ UNCHANGED <<subject, scope, disk, contract, storeVars, indexVars, compileVars>>

NextSource ==
    \/ HashCall
    \/ GetSourceFilesCall

SpecSource == InitSource /\ [][NextSource]_vars

-----------------------------------------------------------------------------
(* SpecWrite: ContractSource::write_entries called on a list of files *)

TargetDir == <<RootDir, <<"d">>>>

\* The text of a path: its components with "/" between them.
RECURSIVE PathText(_)
PathText(path) ==
    IF path = <<>> THEN <<>>
    ELSE IF Len(path) = 1 THEN path[1]
    ELSE path[1] \o <<"/">> \o PathText(Tail(path))

\* File names made of ".." and "a" in any number and order, relative and
\* starting with "/".
TraversalNames ==
    {prefix \o PathText(path) :
        prefix \in {<<>>, <<"/">>},
        path \in SeqsUpTo({ParentDir, <<"a">>}, MaxComponents)}

\* File names with and without extension, some of them the same file after
\* sanitize_path.
NameMenu ==
    {<<"A">>,
     <<"A", ".", "s", "o", "l">>,
     <<".", ".", "/", "A", ".", "s", "o", "l">>,
     <<".", ".", "/", "A">>,
     <<"/", "A", ".", "v", "y">>,
     <<"A", "/", "B">>,
     <<"A", "/", "B", ".", "s", "o", "l">>,
     <<".", "/", "A">>,
     <<".", "A">>,
     <<"A", ".">>,
     <<>>}

\* The lists of files: one file of a name that tries to leave the target, and
\* up to MaxEntries files of the other names; the k-th file holds the k-th
\* letter.
EntryLists ==
    {<<SourceFile(name, NameAt(1))>> : name \in TraversalNames}
    \cup
    {[k \in DOMAIN names |-> SourceFile(names[k], NameAt(k))] :
        names \in SeqsUpTo(NameMenu, MaxEntries)}

InitWrite ==
    /\ subject \in EntryLists
    /\ call = <<>>
    /\ call_result = <<>>
    /\ scope = <<>>
    /\ disk = EmptyDisk
    /\ contract = <<>>
    /\ StoreIdle
    /\ IndexIdle
    /\ CompileIdle

\* ContractSource::write_entries(dir, &subject).await
WriteEntriesCall(dir) ==
    /\ call' = [method |-> "write_entries", dir |-> dir]
    /\ \E written \in {write_entries(disk, dir, subject)} :
          /\ call_result' = [kind |-> written.kind, value |-> written.value]
          /\ disk' = written.disk
    /\ UNCHANGED <<subject, scope, contract, storeVars, indexVars, compileVars>>

NextWrite == WriteEntriesCall(TargetDir)

SpecWrite == InitWrite /\ [][NextWrite]_vars

-----------------------------------------------------------------------------
(* plain_contract.rs: PlainContract::from_folder *)

Name_contract_json == <<"c", "o", "n", "t", "r", "a", "c", "t", ".", "j", "s", "o", "n">>
Name_main_sol == <<"m", "a", "i", "n", ".", "s", "o", "l">>
Name_main_vy == <<"m", "a", "i", "n", ".", "v", "y">>

\* A folder: the text of its metadata.json (None when there is no such file)
\* and its other files, each a readable text.
Folder(metadata, files) == [metadata |-> metadata, files |-> files]

\* serde_json::from_str::<Metadata>, reduced to a document that holds the
\* contract name between braces; the other fields are the same in every
\* document.
MetadataFromStr(text) ==
    IF Len(text) >= 2 /\ Head(text) = "{" /\ text[Len(text)] = "}"
    THEN Ok(MetadataOf(SubSeq(text, 2, Len(text) - 1), <<"v", "0", ".", "8", ".", "0">>,
                       200, TRUE, "ipfs"))
    ELSE Err("serde_json::from_str")

\* fs::read_to_string(format!("{}/name", path)).await
read_to_string(folder, name) ==
    IF \E f \in folder.files : f.name = name
    THEN Ok((CHOOSE f \in folder.files : f.name = name).content)
    ELSE Err("No such file or directory")

\* The orders fs::read_dir may list a set of files in.
RECURSIVE Listings(_)
Listings(files) ==
    IF files = {} THEN {<<>>}
    ELSE UNION {{<<f>> \o rest : rest \in Listings(files \ {f})} : f \in files}

\* path.extension().map_or(false, |ext| ext == "sol")
HasSolExtension(name) == extension(components(name)) = Some(Sol)

\* source_from_multi_source_contract, with the entries of the folder as
\* read_dir lists them
source_from_multi_source_contract(entries) ==
    Ok(ContractSource("multi_sol",
                      SelectSeq(entries, LAMBDA entry : HasSolExtension(entry.name))))

\* A faulty variant of SingleSource: main.sol is looked at first.
SingleSourceSolidityFirst(contract_json, solidity_source, viper_source) ==
    IF solidity_source.kind = "Ok"
    THEN Some(ContractSource("single_sol",
                             <<SourceFile(Name_main_sol, solidity_source.value)>>))
    ELSE IF contract_json.kind = "Ok"
    THEN Some(ContractSource("json",
                             <<SourceFile(Name_contract_json, contract_json.value)>>))
    ELSE IF viper_source.kind = "Ok"
    THEN Some(ContractSource("vyper", <<SourceFile(Name_main_vy, viper_source.value)>>))
    ELSE None

\* match (contract_json, solidity_source, viper_source): the source of the
\* first three arms, None in the last arm
SingleSource(contract_json, solidity_source, viper_source) ==
    IF contract_json.kind = "Ok"
    THEN Some(ContractSource("json",
                             <<SourceFile(Name_contract_json, contract_json.value)>>))
    ELSE IF solidity_source.kind = "Ok"
    THEN Some(ContractSource("single_sol",
                             <<SourceFile(Name_main_sol, solidity_source.value)>>))
    ELSE IF viper_source.kind = "Ok"
    THEN Some(ContractSource("vyper", <<SourceFile(Name_main_vy, viper_source.value)>>))
    ELSE None

\* The source the folder holds as one file, None when it holds none of the
\* three.
SingleSourceOf(folder) ==
    SingleSource(read_to_string(folder, Name_contract_json),
                 read_to_string(folder, Name_main_sol),
                 read_to_string(folder, Name_main_vy))

\* PlainContract::from_folder
from_folder(folder, entries) ==
    IF folder.metadata = None THEN Err("No such file or directory")
    ELSE IF MetadataFromStr(folder.metadata[1]).kind = "Err"
    THEN Err("serde_json::from_str")
    ELSE With(SingleSourceOf(folder), LAMBDA source :
           IF source # None
           THEN Ok(Compiled(PlainContract(MetadataFromStr(folder.metadata[1]).value,
                                          source[1]), None, None))
           ELSE Ok(Compiled(PlainContract(MetadataFromStr(folder.metadata[1]).value,
                                          source_from_multi_source_contract(entries).value),
                            None, None)))

-----------------------------------------------------------------------------
(* plain_contract.rs: compile and export_source_code as whole calls *)

Digits == {"0", "1", "2", "3", "4", "5", "6", "7", "8", "9"}

\* v.trim_start_matches('v')
RECURSIVE TrimStartV(_)
TrimStartV(text) ==
    IF text # <<>> /\ text[1] = "v" THEN TrimStartV(Tail(text)) ELSE text

\* The pieces of a text between its "." characters.
RECURSIVE SplitDot(_, _)
SplitDot(text, piece) ==
    IF text = <<>> THEN <<piece>>
    ELSE IF text[1] = "." THEN <<piece>> \o SplitDot(Tail(text), <<>>)
    ELSE SplitDot(Tail(text), Append(piece, text[1]))

\* Version::parse gives Ok, for versions without pre-release and build parts:
\* three numbers separated by dots.
VersionParses(text) ==
    LET pieces == SplitDot(text, <<>>) IN
    /\ Len(pieces) = 3
    /\ \A k \in DOMAIN pieces : pieces[k] # <<>> /\ Range(pieces[k]) \subseteq Digits

\* The directory tempfile::tempdir() makes.
TempRoot == <<RootDir, <<"t">>>>

\* TempDir::drop: the directory and everything below it removed.
Below(path, root) == Len(path) >= Len(root) /\ SubSeq(path, 1, Len(root)) = root
RemoveTree(d, root) ==
    [d EXCEPT !.files = {f \in d.files : ~Below(f.path, root)},
              !.dirs = {dir \in d.dirs : ~Below(dir, root)}]

\* A faulty variant of BindSourceFiles: the file list is stored in the
\* contract as soon as it is known.
StoreSourceFiles(self, source_files) == [self EXCEPT !.source_files = Some(source_files)]

\* let source_files = self.get_source_files()?; binds a local, the contract
\* is as it was.
BindSourceFiles(self, source_files) == self

\* self.source_files = Some(source_files);
\* self.compilation_output = Some(output.clone());
AttachOutput(self, source_files, output) ==
    [self EXCEPT !.source_files = Some(source_files),
                 !.compilation_output = Some(output)]

\* The result of a call on a contract: what it returns, the contract and the
\* file system after it.
CallOutcome(result, self, d) ==
    [kind |-> result.kind, value |-> result.value, self |-> self, disk |-> d]

\* PlainContract::compile from the write of the sources on; `root` is dropped
\* on every return.
CompileFrom(self, d, env, source_files, source_path) ==
    With(write_entries(d, source_path, source_files), LAMBDA written :
      IF written.kind = "Err"
      THEN CallOutcome(written, self, RemoveTree(written.disk, TempRoot))
      ELSE IF env.toolchain = "Err"
      THEN CallOutcome(Err("compile"), self, RemoveTree(written.disk, TempRoot))
      ELSE CallOutcome(Ok(env.output), AttachOutput(self, source_files, env.output),
                       RemoveTree(written.disk, TempRoot)))

\* if let ContractSource::Json(ref source) = self.source { .. }: the error of
\* serde_json::from_str or of `.context("Missing settings in json")`, None
\* when there is none.
SettingsError(source) ==
    IF source.type # "json" THEN None
    ELSE With(EtherscanJson(source.files[1].content), LAMBDA json :
           IF json.bad THEN Some("serde_json::from_str")
           ELSE IF ~json.settings THEN Some("Missing settings in json")
           ELSE None)

\* PlainContract::compile once `root` is made and the file list is known.
CompileWith(self, d1, env, source_files) ==
    IF ~VersionParses(TrimStartV(self.metadata.compiler_version))
    THEN CallOutcome(Err("Version::parse"), self, RemoveTree(d1, TempRoot))
    ELSE IF env.solc = "Err"
    THEN CallOutcome(Err("Solc::find_or_install"), self, RemoveTree(d1, TempRoot))
    ELSE IF SettingsError(self.source) # None
    THEN CallOutcome(Err(SettingsError(self.source)[1]), self, RemoveTree(d1, TempRoot))
    ELSE CompileFrom(self, d1, env, source_files,
                     join(TempRoot, PathBufFrom(self.metadata.contract_name)))

\* The file system with the directory tempfile::tempdir() made.
WithTempRoot(d) == [d EXCEPT !.dirs = d.dirs \cup Ancestors(TempRoot)]

\* PlainContract::compile. env: what tempfile::tempdir(), Solc::find_or_install
\* and the toolchain give.
compile(self, d, env) ==
    IF env.tempdir = "Err" THEN CallOutcome(Err("tempdir"), self, d)
    ELSE With(get_source_files(self.source), LAMBDA files :
           IF files.kind = "Err"
           THEN CallOutcome(files, self, RemoveTree(WithTempRoot(d), TempRoot))
           ELSE CompileWith(BindSourceFiles(self, files.value), WithTempRoot(d), env,
                            files.value))

\* PlainContract::export_source_code
export_source_code(self, d, output_folder) ==
    With(get_source_files(self.source), LAMBDA files :
      IF files.kind = "Err" THEN CallOutcome(files, self, d)
      ELSE With(write_entries(d, join(PathBufFrom(output_folder),
                                      PathBufFrom(self.metadata.contract_name)),
                              files.value),
                LAMBDA written : CallOutcome(written, self, written.disk)))

-----------------------------------------------------------------------------
(* SpecContract: id, get_source_files, compile and export_source_code called
   on one contract, in any order *)

Version_ok == <<"v", "0", ".", "8", ".", "0">>
Version_bad == <<"0", ".", "8">>

\* Metadata that differ from the first in one field each.
MetadataSamples ==
    {MetadataOf(<<"C">>, Version_ok, 200, TRUE, "ipfs"),
     MetadataOf(<<"D">>, Version_ok, 200, TRUE, "ipfs"),
     MetadataOf(<<"C">>, Version_bad, 200, TRUE, "ipfs"),
     MetadataOf(<<"C">>, Version_ok, 0, TRUE, "ipfs"),
     MetadataOf(<<"C">>, Version_ok, 200, FALSE, "ipfs"),
     MetadataOf(<<"C">>, Version_ok, 200, TRUE, "none")}

File_A == SourceFile(<<"A", ".", "s", "o", "l">>, <<"a">>)
File_B == SourceFile(<<"l", "/", "B">>, <<"b">>)

\* Texts no EtherscanJson can be read from: a document cut short, a document
\* without `sources`, a text that is no JSON, and the empty text.
MalformedDocuments ==
    {SubSeq(JsonDocument(<<File_A, File_B>>), 1, n) :
        n \in {Len(JsonDocument(<<File_A>>)) - 1,
               Len(JsonDocumentOf(<<File_A>>, FALSE)) - 1,
               Len(JsonDocumentOf(<<File_A, File_B>>, FALSE)) - 2}}
    \cup {<<"{", "}">>, <<"p", "r", "a", "g", "m", "a">>, <<>>}

\* The sources: the plain variants, and the Json variant with a document
\* with and without settings and with the malformed texts.
ContractSources ==
    {ContractSource("single_sol", <<File_A>>),
     ContractSource("vyper", <<SourceFile(<<"m", ".", "v", "y">>, <<"a">>)>>),
     ContractSource("multi_sol", <<File_A, File_B>>),
     ContractSource("json", <<SourceFile(<<"j">>, JsonDocument(<<File_A, File_B>>))>>),
     ContractSource("json", <<SourceFile(<<"j">>, JsonDocumentOf(<<File_A>>, FALSE))>>)}
    \cup
    {ContractSource("json", <<SourceFile(<<"j">>, text)>>) : text \in MalformedDocuments}

\* What the toolchain may give for a contract.
Outputs ==
    {<<>>,
     <<Artifact(<<"A">>, <<"A", ".", "s", "o", "l">>, Some(<<AbiFunction(<<"a">>)>>), None)>>}

\* What the collaborators of compile() may give.
CompileEnvs ==
    [tempdir : {"Ok", "Err"}, solc : {"Ok", "Err"}, toolchain : {"Ok", "Err"},
     output : Outputs]

OutputFolder == <<"o", "u", "t">>

InitContract ==
    /\ subject \in {Compiled(PlainContract(metadata, source), None, None) :
                       metadata \in MetadataSamples, source \in ContractSources}
    /\ call = <<>>
    /\ call_result = <<>>
    /\ scope = <<>>
    /\ disk = EmptyDisk
    /\ contract = <<>>
    /\ StoreIdle
    /\ IndexIdle
    /\ CompileIdle

\* A call returns: its result, the contract and the file system it leaves
Returns(outcome_) ==
    /\ call_result' = [kind |-> outcome_.kind, value |-> outcome_.value]
    /\ subject' = outcome_.self
    /\ disk' = outcome_.disk

\* subject.id()
IdCall ==
    /\ call' = [method |-> "id"]
    /\ call_result' = Ok(ContractId(subject))
    /\ UNCHANGED <<subject, scope, disk, contract, storeVars, indexVars, compileVars>>

\* subject.get_source_files()
ContractSourceFilesCall ==
    /\ call' = [method |-> "get_source_files"]
    /\ call_result' = get_source_files(subject.source)
    /\ UNCHANGED <<subject, scope, disk, contract, storeVars, indexVars, compileVars>>

\* subject.compile().await
WholeCompileCall(env) ==
    /\ call' = [method |-> "compile"]
    /\ \E outcome_ \in {compile(subject, disk, env)} : Returns(outcome_)
    /\ UNCHANGED <<scope, contract, storeVars, indexVars, compileVars>>

\* subject.export_source_code(output_folder).await
ExportSourceCodeCall(output_folder) ==
    /\ call' = [method |-> "export_source_code"]
    /\ \E outcome_ \in {export_source_code(subject, disk, output_folder)} :
          Returns(outcome_)
    /\ UNCHANGED <<scope, contract, storeVars, indexVars, compileVars>>

NextContract ==
    \/ IdCall
    \/ ContractSourceFilesCall
    \/ \E env \in CompileEnvs : WholeCompileCall(env)
    \/ ExportSourceCodeCall(OutputFolder)

SpecContract == InitContract /\ [][NextContract]_vars

-----------------------------------------------------------------------------
(* SpecFolder: PlainContract::from_folder called on a folder *)

\* The files a folder may hold next to metadata.json; each holds the first
\* letter of its name.
FolderFileNames ==
    {Name_contract_json, Name_main_sol, Name_main_vy,
     <<"A", ".", "s", "o", "l">>, <<"B", ".", "s", "o", "l">>, <<"R">>, <<"v", ".", "v", "y">>}

\* What metadata.json may hold.
MetadataRead(found) ==
    IF found = "absent" THEN None
    ELSE IF found = "malformed" THEN Some(<<"{", "C">>)
    ELSE Some(<<"{", "C", "}">>)

FolderOf(found, names) ==
    Folder(MetadataRead(found), {SourceFile(name, <<name[1]>>) : name \in names})

InitFolder ==
    /\ \E found \in {"absent", "malformed", "parsed"}, names \in SUBSET FolderFileNames :
          subject = FolderOf(found, names)
    /\ call = <<>>
    /\ call_result = <<>>
    /\ scope = <<>>
    /\ disk = EmptyDisk
    /\ contract = <<>>
    /\ StoreIdle
    /\ IndexIdle
    /\ CompileIdle

\* PlainContract::from_folder(subject).await, read_dir listing the folder as
\* `entries` when it is asked
FromFolderCall(entries) ==
    /\ call' = [method |-> "from_folder"]
    /\ call_result' = from_folder(subject, entries)
    /\ UNCHANGED <<subject, scope, disk, contract, storeVars, indexVars, compileVars>>

NextFolder ==
    \E entries \in (IF SingleSourceOf(subject) = None
                    THEN Listings(subject.files) ELSE {<<>>}) :
       FromFolderCall(entries)

SpecFolder == InitFolder /\ [][NextFolder]_vars

-----------------------------------------------------------------------------
(* main.rs: process_metadata_contracts and process_etherscan_contracts *)

\* PlainContract::from_etherscan_json: the document is read to the end as an
\* EtherscanJson and kept as the Json source of the contract; a text that is
\* no such document is an error.
from_etherscan_json(text) ==
    IF EtherscanJson(text).bad THEN Err("serde_json::from_str")
    ELSE Ok(Compiled(PlainContract(Metadata(<<"C">>, Version_ok),
                                   ContractSource("json",
                                                  <<SourceFile(Name_contract_json, text)>>)),
                     None, None))

\* A faulty variant of OnError: a failure is skipped whatever the caller asked.
OnErrorContinue(ignore_errors) == "continue"

\* Err(error) => if ignore_errors { .. } else { panic!(..) }
OnError(ignore_errors) == IF ignore_errors THEN "continue" ELSE "panic"

\* One turn of the for loop with the result of parsing the entry: the
\* position, the contracts and the outcome of the call after it.
AfterItem(result, ignore_errors) ==
    IF result.kind = "Ok"
    THEN /\ scope' = [k |-> scope.k + 1, contracts |-> Append(scope.contracts, result.value)]
         /\ UNCHANGED call_result
    ELSE IF OnError(ignore_errors) = "continue"
    THEN /\ scope' = [scope EXCEPT !.k = scope.k + 1]
         /\ UNCHANGED call_result
    ELSE /\ call_result' = Panic("Process file failed with error")
         /\ UNCHANGED scope

Walking(method) ==
    /\ call.method = method
    /\ call_result = <<>>
    /\ scope.k <= Len(subject)

\* process_metadata_contracts: a directory without metadata.json is passed
\* over, any other is read with from_folder.
MetadataItem(entries) ==
    /\ Walking("process_metadata_contracts")
    /\ IF subject[scope.k].metadata = None
       THEN /\ scope' = [scope EXCEPT !.k = scope.k + 1]
            /\ UNCHANGED call_result
       ELSE AfterItem(from_folder(subject[scope.k], entries), call.ignore_errors)
    /\ UNCHANGED <<subject, call, disk, contract, storeVars, indexVars, compileVars>>

\* process_etherscan_contracts: every file the filter lets through is read
\* with from_etherscan_json.
EtherscanItem ==
    /\ Walking("process_etherscan_contracts")
    /\ AfterItem(from_etherscan_json(subject[scope.k]), call.ignore_errors)
    /\ UNCHANGED <<subject, call, disk, contract, storeVars, indexVars, compileVars>>

\* The walk is over: `contracts` is returned.
ProcessReturn ==
    /\ call # <<>>
    /\ call_result = <<>>
    /\ scope.k > Len(subject)
    /\ call_result' = Ok(scope.contracts)
    /\ UNCHANGED <<subject, call, scope, disk, contract, storeVars, indexVars, compileVars>>

-----------------------------------------------------------------------------
(* SpecIngest: the two ingestion walks over a few folders or documents *)

IngestFolders ==
    {FolderOf(found, names) :
        found \in {"absent", "parsed"},
        names \in {{Name_main_sol}, {<<"A", ".", "s", "o", "l">>, <<"B", ".", "s", "o", "l">>}}}
    \cup {FolderOf("malformed", {Name_main_sol})}

IngestDocuments ==
    {JsonDocument(<<File_A>>), JsonDocumentOf(<<File_A, File_B>>, FALSE),
     SubSeq(JsonDocument(<<File_A>>), 1, Len(JsonDocument(<<File_A>>)) - 1), <<>>}

InitIngest ==
    /\ \E method \in {"process_metadata_contracts", "process_etherscan_contracts"},
          ignore_errors \in BOOLEAN :
          /\ call = [method |-> method, ignore_errors |-> ignore_errors]
          /\ subject \in SeqsUpTo(IF method = "process_metadata_contracts"
                                  THEN IngestFolders ELSE IngestDocuments, MaxItems)
    /\ call_result = <<>>
    /\ scope = [k |-> 1, contracts |-> <<>>]
    /\ disk = EmptyDisk
    /\ contract = <<>>
    /\ StoreIdle
    /\ IndexIdle
    /\ CompileIdle

NextIngest ==
    \/ \E entries \in (IF /\ Walking("process_metadata_contracts")
                          /\ subject[scope.k].metadata # None
                          /\ SingleSourceOf(subject[scope.k]) = None
                       THEN Listings(subject[scope.k].files) ELSE {<<>>}) :
          MetadataItem(entries)
    \/ EtherscanItem
    \/ ProcessReturn

SpecIngest == InitIngest /\ [][NextIngest]_vars

-----------------------------------------------------------------------------
(* plain_contract.rs: PlainContract::compile, step by step *)

Slots == 1..MaxSlots
TempNames == 1..MaxTempNames

\* The contracts compile() is called on, by what decides its early returns:
\* the source variant, whether a Json source parses as the structured document
\* and holds settings, and whether metadata.compiler_version parses.
CompileInputs ==
    {[type |-> "single_sol", json |-> "none", version_ok |-> TRUE],
     [type |-> "multi_sol", json |-> "none", version_ok |-> FALSE],
     [type |-> "json", json |-> "ok", version_ok |-> TRUE],
     [type |-> "json", json |-> "unparseable", version_ok |-> TRUE],
     [type |-> "json", json |-> "no_settings", version_ok |-> TRUE]}

InCall == {"tempdir", "source_files", "version", "solc", "settings", "write", "toolchain"}
Returned == {"ok", "err_tempdir", "err_source_files", "err_version", "err_solc",
             "err_settings", "err_write", "err_toolchain"}

\* tempfile::tempdir() makes a directory under a name no existing one has.
FreshTempNames(fs) == TempNames \ fs

\* A faulty variant of DropTempDir: the directory kept (TempDir::into_path).
KeepTempDir(fs, dir) == fs

\* `root` goes out of scope: TempDir::drop removes the directory.
DropTempDir(fs, dir) == fs \ {dir}

InitCompile ==
    /\ contract = <<>>
    /\ cin \in [Slots -> CompileInputs]
    /\ cpc = [s \in Slots |-> "idle"]
    /\ croot = [s \in Slots |-> 0]
    /\ cfields = [s \in Slots |-> FALSE]
    /\ tmpfs = {}
    /\ StoreIdle
    /\ IndexIdle
    /\ CallIdle

\* compile() returns from slot s with `result`; `root` is dropped on the way out.
Return(s, result) ==
    /\ cpc' = [cpc EXCEPT ![s] = result]
    /\ croot' = [croot EXCEPT ![s] = 0]
    /\ tmpfs' = IF croot[s] = 0 THEN tmpfs ELSE DropTempDir(tmpfs, croot[s])

\* compile() moves on inside slot s.
Goto(s, pc) ==
    /\ cpc' = [cpc EXCEPT ![s] = pc]
    /\ UNCHANGED <<croot, tmpfs>>

\* contract.compile() is called
CompileCall(s) ==
    /\ cpc[s] \in {"idle"} \cup Returned
    /\ Goto(s, "tempdir")
    /\ UNCHANGED <<callVars, contract, cin, cfields, storeVars, indexVars>>

\* let root = tempfile::tempdir()?;
CompileTempDir(s) ==
    /\ cpc[s] = "tempdir"
    /\ \E dir \in FreshTempNames(tmpfs) :
         /\ tmpfs' = tmpfs \cup {dir}
         /\ croot' = [croot EXCEPT ![s] = dir]
    /\ cpc' = [cpc EXCEPT ![s] = "source_files"]
    /\ UNCHANGED <<callVars, contract, cin, cfields, storeVars, indexVars>>

\* tempfile::tempdir() gave an error: no directory was made
CompileTempDirErr(s) ==
    /\ cpc[s] = "tempdir"
    /\ Return(s, "err_tempdir")
    /\ UNCHANGED <<callVars, contract, cin, cfields, storeVars, indexVars>>

\* let source_files = self.get_source_files()?;
CompileSourceFiles(s) ==
    /\ cpc[s] = "source_files"
    /\ IF cin[s].type = "json" /\ cin[s].json = "unparseable"
       THEN Return(s, "err_source_files")
       ELSE Goto(s, "version")
    /\ UNCHANGED <<callVars, contract, cin, cfields, storeVars, indexVars>>

\* let version = Version::parse(v)?;
CompileVersion(s) ==
    /\ cpc[s] = "version"
    /\ IF cin[s].version_ok THEN Goto(s, "solc") ELSE Return(s, "err_version")
    /\ UNCHANGED <<callVars, contract, cin, cfields, storeVars, indexVars>>

\* Solc::find_or_install(&version)? and MultiCompiler::new(solc, None)? gave Ok
CompileSolc(s) ==
    /\ cpc[s] = "solc"
    /\ Goto(s, "settings")
    /\ UNCHANGED <<callVars, contract, cin, cfields, storeVars, indexVars>>

\* Solc::find_or_install or MultiCompiler::new gave an error
CompileSolcErr(s) ==
    /\ cpc[s] = "solc"
    /\ Return(s, "err_solc")
    /\ UNCHANGED <<callVars, contract, cin, cfields, storeVars, indexVars>>

\* if let ContractSource::Json(..) { serde_json::from_str(..)?;
\*     settings = json.settings.context("Missing settings in json")?; .. }
CompileSettings(s) ==
    /\ cpc[s] = "settings"
    /\ IF cin[s].type = "json" /\ cin[s].json # "ok"
       THEN Return(s, "err_settings")
       ELSE Goto(s, "write")
    /\ UNCHANGED <<callVars, contract, cin, cfields, storeVars, indexVars>>

\* ContractSource::write_entries(..).await? gave Ok
CompileWrite(s) ==
    /\ cpc[s] = "write"
    /\ Goto(s, "toolchain")
    /\ UNCHANGED <<callVars, contract, cin, cfields, storeVars, indexVars>>

\* write_entries gave an error (create_dir_all or fs::write failed)
CompileWriteErr(s) ==
    /\ cpc[s] = "write"
    /\ Return(s, "err_write")
    /\ UNCHANGED <<callVars, contract, cin, cfields, storeVars, indexVars>>

\* builder.build(compiler)? and builder.compile()? gave Ok;
\* self.source_files = Some(..); self.compilation_output = Some(..); Ok(output)
CompileOk(s) ==
    /\ cpc[s] = "toolchain"
    /\ Return(s, "ok")
    /\ cfields' = [cfields EXCEPT ![s] = TRUE]
    /\ UNCHANGED <<callVars, contract, cin, storeVars, indexVars>>

\* builder.build or builder.compile gave an error
CompileToolchainErr(s) ==
    /\ cpc[s] = "toolchain"
    /\ Return(s, "err_toolchain")
    /\ UNCHANGED <<callVars, contract, cin, cfields, storeVars, indexVars>>

NextCompile ==
    \/ \E s \in Slots : CompileCall(s)
    \/ \E s \in Slots : CompileTempDir(s)
    \/ \E s \in Slots : CompileTempDirErr(s)
    \/ \E s \in Slots : CompileSourceFiles(s)
    \/ \E s \in Slots : CompileVersion(s)
    \/ \E s \in Slots : CompileSolc(s)
    \/ \E s \in Slots : CompileSolcErr(s)
    \/ \E s \in Slots : CompileSettings(s)
    \/ \E s \in Slots : CompileWrite(s)
    \/ \E s \in Slots : CompileWriteErr(s)
    \/ \E s \in Slots : CompileOk(s)
    \/ \E s \in Slots : CompileToolchainErr(s)

SpecCompile == InitCompile /\ [][NextCompile]_vars

-----------------------------------------------------------------------------
(* Properties of index_functions, checked under Spec *)

Positions == DOMAIN contract
Running == {p \in Positions : task[p] \in {"spawned", "compiling", "lock_wait", "appending"}}
Compiles(p) == contract[p].source_type # "vyper" /\ outcome[p] = "compiled"
RowsOf(p) == extract_functions(UnitContract(p))
HasRowOf(rows, p) == \E k \in DOMAIN rows : rows[k].contract_id = contract[p].id
Persisted(r) == \E k \in DOMAIN function : function[k].id = r.id
\* The offsets 0, P, 2P, ... below N
PageOffsets == {o \in 0..(Len(contract) - 1) : size >= 1 /\ o % size = 0}
ReturnedOk == opc = "done"

\* C1: for N stored contracts and a chunk size P >= 1 the pages queried are
\* those at offsets 0, P, 2P, ... in this order, no contract is ever handed to
\* two units, the contracts of the pages queried so far have each been handed
\* to exactly one unit, and when the loop is exhausted that is every contract;
\* for N = 0 no page is queried and no unit is started.
C1_PaginationComplete ==
    /\ \A p \in Positions : handed[p] <= 1
    /\ size >= 1 => \A k \in DOMAIN fetched : fetched[k] = (k - 1) * size
    /\ (size >= 1 /\ opc # "start") =>
          \A p \in Positions :
             handed[p] = IF fetched # <<>> /\ p <= CurrentOffset + size THEN 1 ELSE 0
    /\ (ReturnedOk /\ size >= 1) =>
          /\ \A p \in Positions : handed[p] = 1
          /\ Range(fetched) = PageOffsets
    /\ Len(contract) = 0 => (fetched = <<>> /\ compile_called = {})

C1_Witness ==
    /\ ReturnedOk
    /\ size = 3
    /\ Len(contract) = 4
    /\ fetched = <<0, 3>>

\* C2: a page's rows are given to store_functions only after every unit
\* spawned for that page has finished: whenever index_functions is past the
\* join of a page, or a page has been stored, or a row of a contract is in the
\* function table, the units concerned have ended.
C2_PageBarrier ==
    /\ opc \in {"lock", "store"} => \A p \in CurrentPage : task[p] = "done"
    /\ \A o \in stored : \A p \in PagePositions(o, size, Len(contract)) : task[p] = "done"
    /\ \A p \in Positions : HasRowOf(function, p) => task[p] = "done"

C2_Witness ==
    /\ opc = "store"
    /\ Cardinality(CurrentPage) = 3
    /\ Len(functions) >= 3

\* C3: pages are processed in increasing offset order (the offsets queried
\* never decrease, and increase strictly for P >= 1; with P = 0 every page is
\* the empty page at offset 0): a unit of a page is started only when every
\* earlier page has been stored, so the running units all belong to the page
\* last queried and number at most P.
C3_PagesInOrder ==
    /\ \A k \in DOMAIN fetched : \A j \in DOMAIN fetched : j < k =>
          /\ fetched[j] <= fetched[k]
          /\ size >= 1 => fetched[j] < fetched[k]
    /\ \A p \in Positions : task[p] # "none" =>
          \A o \in PageOffsets : o + size < p => o \in stored
    /\ Running # {} => Running \subseteq CurrentPage
    /\ Cardinality(Running) <= size

C3_Witness ==
    /\ Len(contract) = 4
    /\ size = 2
    /\ stored = {0}
    /\ task[3] = "compiling"
    /\ task[4] = "compiling"

\* C4: a compile() error of one contract does not stop index_functions: the
\* unit ends normally and adds no row, index_functions fails only on a unit
\* that panicked after its compile succeeded, every stored page holds a row
\* for each function id of its contracts that compiled, and a run that returns
\* Ok has stored every page.
C4_CompileErrorContained ==
    /\ \A p \in Positions : outcome[p] = "compile_err" =>
          /\ task[p] # "panicked"
          /\ ~HasRowOf(functions, p)
          /\ ~HasRowOf(function, p)
    /\ opc = "failed" => \E p \in CurrentPage : outcome[p] = "extract_panic"
    /\ \A o \in stored : \A p \in PagePositions(o, size, Len(contract)) :
          Compiles(p) => \A r \in Range(RowsOf(p)) : Persisted(r)
    /\ (ReturnedOk /\ size >= 1) => stored = PageOffsets

C4_Witness ==
    /\ ReturnedOk
    /\ size = 2
    /\ Len(contract) = 4
    /\ outcome[1] = "compile_err"
    /\ task[1] = "done"
    /\ 1 \in compile_called
    /\ Compiles(2)
    /\ HasRowOf(function, 2)
    /\ Compiles(4)
    /\ HasRowOf(function, 4)

\* C5 (as claimed): a unit that fails in extraction does not abort the batch:
\* index_functions never returns an error because a unit panicked.
C5_ExtractionFailureContained ==
    (\E p \in Positions : task[p] = "panicked") => opc # "failed"

\* The accumulator the page's units give when run one after the other, in
\* page order.
RECURSIVE SequentialRows(_)
SequentialRows(ps) ==
    IF ps = {} THEN <<>>
    ELSE LET p == CHOOSE q \in ps : \A r \in ps : q <= r IN
         (IF Compiles(p) THEN RowsOf(p) ELSE <<>>) \o SequentialRows(ps \ {p})

\* C6: whatever the interleaving of a page's units, the set of rows handed to
\* store_functions is the set the sequential run of the page gives.
C6_FanInSet ==
    opc = "store" => Range(functions) = Range(SequentialRows(CurrentPage))

C6_Witness ==
    /\ opc = "store"
    /\ Len(functions) >= 3
    /\ functions # SequentialRows(CurrentPage)
    /\ Range(functions) = Range(SequentialRows(CurrentPage))

\* C7: appends to the accumulator are mutually exclusive (a unit appends only
\* while it holds the mutex), every row of a unit that ended after extracting
\* is in the accumulator exactly once when index_functions reads it, and a
\* step of a unit changes nothing but that unit, the accumulator and its mutex.
C7_MutexInv ==
    /\ Cardinality({p \in Positions : task[p] = "appending"}) <= 1
    /\ \A p \in Positions : task[p] = "appending" => mutex = p
    /\ opc = "store" =>
          /\ mutex = -1
          /\ \A p \in CurrentPage : Compiles(p) =>
                \A r \in Range(RowsOf(p)) : Occurrences(functions, r) = 1
          /\ \A k \in DOMAIN functions :
                \E p \in CurrentPage : Compiles(p) /\ functions[k] \in Range(RowsOf(p))

C7_UnitFrame ==
    (opc' = opc /\ task' # task) =>
        /\ Cardinality({p \in Positions : task'[p] # task[p]}) = 1
        /\ UNCHANGED <<contract, function, total_countracts, size, i, fetched, stored>>

\* C7: the mutual exclusion and the exactly-once content of the accumulator in
\* every state, and the frame of a unit's step in every step.
C7_AccumulatorMutex == []C7_MutexInv /\ [][C7_UnitFrame]_vars

C7_Witness ==
    /\ \E p \in Positions : task[p] = "appending" /\ functions # <<>>
    /\ \E q \in Positions : task[q] = "lock_wait"

\* C9: a Vyper contract never reaches compile(): its unit calls no compile (so
\* no toolchain run and no temporary directory, both made inside compile),
\* ends normally, and adds no row to the accumulator or the function table.
C9_VyperSkipped ==
    \A p \in Positions : contract[p].source_type = "vyper" =>
        /\ p \notin compile_called
        /\ task[p] \in {"none", "spawned", "done"}
        /\ ~HasRowOf(functions, p)
        /\ ~HasRowOf(function, p)

C9_Witness ==
    /\ ReturnedOk
    /\ Len(contract) = 3
    /\ size = 2
    /\ contract[1].source_type = "vyper"
    /\ task[1] = "done"
    /\ Compiles(2)
    /\ HasRowOf(function, 2)
    /\ stored = PageOffsets

-----------------------------------------------------------------------------
(* Properties of store_functions, checked under SpecReindex *)

\* C12: whatever calls of store_functions were made, table `function` holds at
\* most one row per function id; and from the moment index_functions is run a
\* second time over the same contract table, table `function` is what the
\* first run left: no row is added and none is changed.
C12_StoreFunctionsIdempotent ==
    /\ \A k \in DOMAIN function : \A l \in DOMAIN function :
          function[k].id = function[l].id => k = l
    /\ runs >= 1 => function = function_first

\* The second run has returned Ok after handing store_functions the rows of
\* three contracts again, two artifacts of the second contract giving the same
\* function id, with another chunk size than the first run.
C12_Witness ==
    /\ runs = 1
    /\ ReturnedOk
    /\ Len(contract) = 3
    /\ \A p \in Positions : Compiles(p)
    /\ size = 2
    /\ stored = {0, 2}
    /\ Len(function) = 4
    /\ Len(RowsOf(2)) = 2
    /\ RowsOf(2)[1].id = RowsOf(2)[2].id

-----------------------------------------------------------------------------
(* Properties of extract_functions, checked under SpecExtract *)

Called(method) == call # <<>> /\ call.method = method
SubjectArtifacts == subject.compilation_output[1]
\* What the source search gives for row k of extract_functions.
SearchOfPair(k) ==
    source_code_by_contract_and_function_name(
        subject, AbiPairs(subject)[k].artifact.name, AbiPairs(subject)[k].f.name)
SomeSearchPanics == \E k \in DOMAIN AbiPairs(subject) : SearchOfPair(k).kind = "panic"

\* C13: extract_functions on a compiled contract never returns Err, and the
\* rows it returns are exactly one for every function of the ABI of every
\* artifact: an artifact without an ABI has no row, every function of an ABI
\* has one row under its artifact's name, and there is no other row.
C13_OneRowPerAbiFunction ==
    Called("extract_functions") =>
        /\ call_result.kind # "Err"
        /\ call_result.kind = "Ok" =>
              LET rows == call_result.value IN
              /\ \A a \in DOMAIN SubjectArtifacts :
                    LET artifact == SubjectArtifacts[a]
                        mine == {k \in DOMAIN rows : rows[k].contract_name = artifact.name}
                    IN IF artifact.abi = None
                       THEN mine = {}
                       ELSE /\ Cardinality(mine) = Len(artifact.abi[1])
                            /\ \A j \in DOMAIN artifact.abi[1] :
                                  Cardinality({k \in mine :
                                     /\ rows[k].function_name = artifact.abi[1][j].name
                                     /\ rows[k].selector = artifact.abi[1][j].selector
                                     /\ rows[k].signature = artifact.abi[1][j].signature}) = 1
              /\ \A k \in DOMAIN rows :
                    \E a \in DOMAIN SubjectArtifacts :
                       rows[k].contract_name = SubjectArtifacts[a].name

\* Three rows for contract A, two for contract B, none for I, which has no ABI.
C13_Witness ==
    /\ Called("extract_functions")
    /\ call_result.kind = "Ok"
    /\ Len(call_result.value) = 5
    /\ Len(SubjectArtifacts[1].abi[1]) = 3
    /\ SubjectArtifacts[3].abi = None

\* C14: when the source search of one ABI function returns an error, the row
\* of that function is still there with an empty source_code, every row
\* (that one too) has the id, names, file name, signature and selector of its
\* artifact and function and the text its own search found, and
\* extract_functions returns Ok.
C14_SearchErrorGivesEmptySource ==
    (Called("extract_functions") /\ ~SomeSearchPanics) =>
        /\ call_result.kind = "Ok"
        /\ Len(call_result.value) = Len(AbiPairs(subject))
        /\ \A k \in DOMAIN call_result.value :
              LET row == call_result.value[k]
                  pair == AbiPairs(subject)[k]
              IN /\ SearchOfPair(k).kind = "Err" => row.source_code = <<>>
                 /\ SearchOfPair(k).kind = "Ok" => row.source_code = SearchOfPair(k).value
                 /\ row = from_abi(ContractId(subject), FilenameOf(pair.artifact),
                                   pair.artifact.name, pair.f, row.source_code)

\* The getter c of contract A has no function definition: its row has no
\* source text, the row of f before it has the text of f.
C14_Witness ==
    /\ Called("extract_functions")
    /\ call_result.kind = "Ok"
    /\ Len(call_result.value) >= 2
    /\ call_result.value[1].function_name = Name_f
    /\ call_result.value[1].source_code = <<"f">>
    /\ call_result.value[2].function_name = Name_c
    /\ SearchOfPair(2) = Err("Function not found")
    /\ call_result.value[2].source_code = <<>>

-----------------------------------------------------------------------------
(* Properties of source_code_by_contract_and_function_name, checked under
   SpecExtract *)

SearchMethod == "source_code_by_contract_and_function_name"
\* The loops were reached by the call made.
LoopsReached == Called(SearchMethod) /\ SearchSetupError(subject, call.contract_name) = None
\* A text without the "\r" that a "\n" follows.
WithoutCrBeforeLf(text) ==
    LET kept == {k \in DOMAIN text :
                   ~(text[k] = "\r" /\ k < Len(text) /\ text[k + 1] = "\n")}
    IN [j \in 1..Cardinality(kept) |->
          text[CHOOSE k \in kept : Cardinality({l \in kept : l < k}) = j - 1]]
\* The content of the file of the call's contract with every "\r\n" replaced
\* by "\n".
NormalizedContent == WithoutCrBeforeLf(ContentOf(subject, call.contract_name))

\* A depth-first search over a whole node list, in the order of the work
\* list (last sibling first): the first contract definition of the name it
\* visits, None when no node of the list or below it is one.
RECURSIVE WholeListSearch(_, _)
WholeListSearch(nodes, contract_name) ==
    IF nodes = <<>> THEN None
    ELSE IF IsContractNamed(Popped(nodes), contract_name)
    THEN Some(Popped(nodes))
    ELSE WholeListSearch(AfterPop(nodes) \o Popped(nodes).nodes, contract_name)

FirstDefinition == WholeListSearch(NodesInSource(subject, call.contract_name),
                                   call.contract_name)

\* C15: whenever the top-level node list of the file's AST holds, at any
\* position and at any depth, a contract definition named as the target, the
\* scope of the function search is exactly the children of the first such
\* definition in depth-first order, whatever the length of the list (one node
\* included).
C15_ContractFoundAnywhere ==
    (LoopsReached /\ FirstDefinition # None) => scope = FirstDefinition[1].nodes

IsFunctionDefinitionNamed(node, function_name) ==
    node.node_type = "FunctionDefinition" /\ node.name = Some(function_name)

\* C16: whenever the children of the matched contract definition hold, at any
\* position, a function definition named as the target whose location lies
\* in the content, the call returns Ok with the text at that location,
\* whatever the number of children (one included).
C16_FunctionFoundAnywhere ==
    LoopsReached =>
        \A k \in DOMAIN scope :
           (/\ IsFunctionDefinitionNamed(scope[k], call.function_name)
            /\ SourceOfNode(scope[k], NormalizedContent).kind = "Ok")
           => call_result = SourceOfNode(scope[k], NormalizedContent)

NotFoundMessages ==
    {"Contract not found", "Artifact not found",
     "No source file matches the expected file name", "Function not found"}

\* C17: whenever the AST of the contract's file holds no contract definition
\* named as the target (or there is no such artifact or file at all), or the
\* children of the matched definition hold no function definition named as
\* the target, the call returns a not-found error: never Ok, never a panic.
C17_NotFoundIsErr ==
    (/\ Called(SearchMethod)
     /\ \/ ~LoopsReached
        \/ FirstDefinition = None
        \/ \A k \in DOMAIN scope : ~IsFunctionDefinitionNamed(scope[k], call.function_name))
    => /\ call_result.kind = "Err"
       /\ call_result.value[1] \in NotFoundMessages

\* The getter of the public state variable c of contract A, whose body holds
\* the variable and the function f; and function f of a contract whose AST
\* holds no definition of it.
C17_Witness ==
    /\ LoopsReached
    /\ call.contract_name = Name_A
    /\ call.function_name = Name_c
    /\ Len(scope) = 2
    /\ scope[1].name = Some(Name_c)
    /\ scope[2].name = Some(Name_f)
    /\ call_result = Err("Function not found")

\* The bytes are the characters they encode.
Utf8Valid(bytes) ==
    \A k \in DOMAIN bytes :
       /\ bytes[k] = LeadByte => (k < Len(bytes) /\ bytes[k + 1] = ContinuationByte)
       /\ bytes[k] = ContinuationByte => (k > 1 /\ bytes[k - 1] = LeadByte)

Slice(bytes, start, length) == SubSeq(bytes, start + 1, start + length)

\* C18: when the call returns a text, a function definition named as the
\* target with a location (start, length) was matched in the scope, the
\* location lies in the content with every "\r\n" replaced by "\n", and the
\* text is exactly the bytes [start, start + length) of that content (given
\* that they end on character boundaries), so never the bytes at that
\* location of the content as it was read where the two differ.
C18_SliceOfNormalizedContent ==
    (Called(SearchMethod) /\ call_result.kind = "Ok") =>
        \E k \in DOMAIN scope :
           /\ IsFunctionDefinitionNamed(scope[k], call.function_name)
           /\ scope[k].src.length # None
           /\ LET start == scope[k].src.start
                  length == scope[k].src.length[1]
                  raw == ContentOf(subject, call.contract_name)
              IN /\ start + length <= Len(NormalizedContent)
                 /\ Utf8Valid(Slice(NormalizedContent, start, length)) =>
                       /\ call_result.value = Slice(NormalizedContent, start, length)
                       /\ (Slice(raw, start, length) # Slice(NormalizedContent, start, length)
                             => call_result.value # Slice(raw, start, length))

\* The text of f behind a "\r\n": the byte at its location in the content as
\* it was read is the "\n".
C18_Witness ==
    /\ LoopsReached
    /\ call.function_name = Name_f
    /\ ContentOf(subject, call.contract_name) = <<"\r", "\n", "f", "\r", "\n">>
    /\ scope # <<>>
    /\ scope[Len(scope)].src = SourceLocation(1, Some(1), Some(0))
    /\ call_result = Ok(<<"f">>)

-----------------------------------------------------------------------------
(* Properties of ContractSource::hash, checked under SpecSource *)

\* The files a source consists of.
ConstituentFiles(source) == get_source_files(source).value

\* The source of the same variant that consists of the given files.
WithFiles(source, files) ==
    IF source.type = "json"
    THEN ContractSource("json", <<SourceFile(source.files[1].name, JsonDocument(files))>>)
    ELSE ContractSource(source.type, files)

\* A text with one whitespace character put in anywhere, or with one of its
\* whitespace characters taken out.
WhitespaceEdits(text) ==
    {SubSeq(text, 1, j) \o <<ch>> \o SubSeq(text, j + 1, Len(text)) :
        j \in 0..Len(text), ch \in Whitespace}
    \cup
    {SubSeq(text, 1, j - 1) \o SubSeq(text, j + 1, Len(text)) :
        j \in {k \in DOMAIN text : text[k] \in Whitespace}}

\* The sources that differ from the given one by such an edit of one file.
WhitespaceVariants(source) ==
    LET files == ConstituentFiles(source) IN
    UNION {{WithFiles(source, [files EXCEPT ![k].content = text]) :
              text \in WhitespaceEdits(files[k].content)} : k \in DOMAIN files}

\* C19: the hash of a source of any of the four variants is the hash of every
\* source that differs from it only by whitespace put into or taken out of
\* one of its constituent files.
C19_WhitespaceInvariant ==
    Called("hash") =>
        \A variant \in WhitespaceVariants(subject) :
           ContractSourceHash(variant) = call_result

\* The same for the variants whose files are hashed as they are.
C19_PlainVariants ==
    (Called("hash") /\ subject.type # "json") =>
        \A variant \in WhitespaceVariants(subject) :
           ContractSourceHash(variant) = call_result

\* The file list of a multi-file source in another order.
Reordered(source, perm) ==
    ContractSource(source.type, [k \in DOMAIN source.files |-> source.files[perm[k]]])

\* C20: the hash of a multi-file source is the hash of the source with its
\* file list in any other order.
C20_OrderInvariant ==
    (Called("hash") /\ subject.type = "multi_sol") =>
        \A perm \in Permutations(DOMAIN subject.files) :
           ContractSourceHash(Reordered(subject, perm)) = call_result

\* Three files of two different contents, the odd one first.
C20_Witness ==
    /\ Called("hash")
    /\ subject.type = "multi_sol"
    /\ Len(subject.files) = 3
    /\ subject.files[1].content = <<"a">>
    /\ subject.files[2].content = <<" ">>
    /\ subject.files[3].content = <<>>
    /\ call_result = Md5Hex(<<"<", ">", "<", ">", "<", "a", ">">>)

-----------------------------------------------------------------------------
(* Properties of a contract's identity and of compile and export_source_code,
   checked under SpecContract *)

\* The contract with other metadata.
WithMetadata(c, metadata) == [c EXCEPT !.metadata = metadata]

C21_Step ==
    /\ call'.method = "id" =>
          \A metadata \in MetadataSamples :
             ContractId(WithMetadata(subject, metadata)) = call_result'.value
    /\ call'.method = "compile" => ContractId(subject') = ContractId(subject)

\* C21: the id a contract returns is the id of the contract with the same
\* source and any other metadata (name, compiler version, runs, optimizer
\* flag, bytecode hash), and a call of compile() leaves the contract's id as
\* it was.
C21_IdFromSourceOnly == [][C21_Step]_vars

\* compile() returned Ok on a contract with zero optimizer runs, whose id is
\* the hash of its code.
C21_Witness ==
    /\ call = [method |-> "compile"]
    /\ call_result.kind = "Ok"
    /\ subject.compilation_output # None
    /\ subject.metadata.runs = 0
    /\ ContractId(subject) = Md5Hex(<<"a">>)

-----------------------------------------------------------------------------
(* Properties of write_entries, checked under SpecWrite *)

\* The paths that hold a file or were written to.
PathsWritten == disk.written \cup {f.path : f \in disk.files}

\* What follows the target directory in a path below it.
RelativeTo(path, dir) == SubSeq(path, Len(dir) + 1, Len(path))

\* C22: every path write_entries writes to is the target directory followed
\* by a relative path without a parent-directory component, whatever the file
\* names are: the files are inside the target directory.
C22_WritesInsideTarget ==
    Called("write_entries") =>
        \A path \in PathsWritten :
           /\ Len(path) > Len(call.dir)
           /\ SubSeq(path, 1, Len(call.dir)) = call.dir
           /\ \A k \in DOMAIN RelativeTo(path, call.dir) :
                 RelativeTo(path, call.dir)[k] \notin {ParentDir, RootDir}

\* The file named "/../a/.." was written as a.sol in the target directory.
C22_Witness ==
    /\ Called("write_entries")
    /\ call_result.kind = "Ok"
    /\ subject = <<SourceFile(<<"/", ".", ".", "/", "a", "/", ".", ".">>, NameAt(1))>>
    /\ disk.files = {[path |-> TargetDir \o <<<<"a", ".", "s", "o", "l">>>>,
                      content |-> NameAt(1)]}

\* A relative path with ".sol" put after its last component.
AppendSol(path) ==
    IF path = <<>> THEN path
    ELSE [path EXCEPT ![Len(path)] = path[Len(path)] \o <<".">> \o Sol]

\* The name the k-th file is to be written under: its sanitized name, with
\* ".sol" appended when it has no extension and no file is enumerated under
\* that name with ".sol".
NameToWrite(k) ==
    LET sanitized == sanitize_path(subject[k].name) IN
    IF extension(sanitized) # None THEN sanitized
    ELSE IF \E j \in DOMAIN subject : components(subject[j].name) = AppendSol(sanitized)
    THEN sanitized
    ELSE AppendSol(sanitized)

\* C23: when write_entries returns Ok, every file was written under its
\* sanitized name if that has an extension or if another file is enumerated
\* under that name with ".sol", and else under its sanitized name with ".sol"
\* appended.
C23_DefaultExtension ==
    (Called("write_entries") /\ call_result.kind = "Ok") =>
        \A k \in DOMAIN subject :
           call.dir \o SelectSeq(NameToWrite(k), LAMBDA component : component # CurDir)
              \in disk.written

\* "A" was written as A, because "A.sol" is enumerated too, and "A.sol" as
\* A.sol.
C23_Witness ==
    /\ Called("write_entries")
    /\ call_result.kind = "Ok"
    /\ subject = <<SourceFile(<<"A">>, NameAt(1)),
                   SourceFile(<<"A", ".", "s", "o", "l">>, NameAt(2))>>
    /\ disk.files = {[path |-> TargetDir \o <<<<"A">>>>, content |-> NameAt(1)],
                     [path |-> TargetDir \o <<<<"A", ".", "s", "o", "l">>>>,
                      content |-> NameAt(2)]}

\* The name as a path without its "." components: "./A" and "A" name one
\* file.
NamedFile(name) == SelectSeq(PathBufFrom(name), LAMBDA component : component # CurDir)

\* C32: after a write_entries call that returns Ok for files with pairwise
\* different names (names of different files, "." components aside), there
\* are as many files under the target directory as were enumerated, and the
\* content of each of them is in one of the files.
C32_DistinctNamesDistinctPaths ==
    (/\ Called("write_entries")
     /\ call_result.kind = "Ok"
     /\ \A k, l \in DOMAIN subject :
           k # l => NamedFile(subject[k].name) # NamedFile(subject[l].name))
       => /\ Cardinality(disk.files) = Len(subject)
          /\ \A k \in DOMAIN subject :
                \E f \in disk.files : f.content = subject[k].content

\* The same for names without "." and ".." components and without a leading
\* "/".
C32_PlainNamesDistinctPaths ==
    (/\ Called("write_entries")
     /\ call_result.kind = "Ok"
     /\ \A k, l \in DOMAIN subject : k # l => subject[k].name # subject[l].name
     /\ \A k \in DOMAIN subject :
           /\ PathBufFrom(subject[k].name) = sanitize_path(subject[k].name)
           /\ CurDir \notin Range(PathBufFrom(subject[k].name)))
       => /\ Cardinality(disk.files) = Len(subject)
          /\ \A k \in DOMAIN subject :
                \E f \in disk.files : f.content = subject[k].content

-----------------------------------------------------------------------------
(* Properties of from_folder, checked under SpecFolder *)

FolderHolds(name) == \E f \in subject.files : f.name = name

\* The file of the folder with this name, as a one-file list.
OnlyFile(name) == <<CHOOSE f \in subject.files : f.name = name>>

\* The name is something followed by ".sol".
EndsInDotSol(name) ==
    /\ Len(name) > 4
    /\ SubSeq(name, Len(name) - 3, Len(name)) = <<".", "s", "o", "l">>

SeqRange(s) == {s[k] : k \in DOMAIN s}

\* C24: a contract loaded from a folder is the Json variant of contract.json
\* when the folder holds it, otherwise SingleSolidity of main.sol when the
\* folder holds that, otherwise Vyper of main.vy when the folder holds that,
\* and otherwise MultiSolidity of exactly the files whose extension is "sol",
\* each once.
C24_VariantPriority ==
    (Called("from_folder") /\ call_result.kind = "Ok") =>
       LET source == call_result.value.source
       IN  IF FolderHolds(Name_contract_json)
           THEN source = ContractSource("json", OnlyFile(Name_contract_json))
           ELSE IF FolderHolds(Name_main_sol)
           THEN source = ContractSource("single_sol", OnlyFile(Name_main_sol))
           ELSE IF FolderHolds(Name_main_vy)
           THEN source = ContractSource("vyper", OnlyFile(Name_main_vy))
           ELSE /\ source.type = "multi_sol"
                /\ SeqRange(source.files) = {f \in subject.files : EndsInDotSol(f.name)}
                /\ Len(source.files) = Cardinality(SeqRange(source.files))

\* A folder with every sample file gave the Json variant.
C24_Witness ==
    /\ Called("from_folder")
    /\ call_result.kind = "Ok"
    /\ {f.name : f \in subject.files} = FolderFileNames
    /\ call_result.value.source.type = "json"

\* A folder without contract.json, main.sol and main.vy gave the two .sol
\* files, B.sol listed first, and neither R nor v.vy.
C24_WitnessMulti ==
    /\ Called("from_folder")
    /\ call_result.kind = "Ok"
    /\ Cardinality(subject.files) = 4
    /\ call_result.value.source.type = "multi_sol"
    /\ Len(call_result.value.source.files) = 2
    /\ call_result.value.source.files[1].name = <<"B", ".", "s", "o", "l">>

-----------------------------------------------------------------------------
(* Properties of the ingestion walks, checked under SpecIngest *)

\* The entry is one the walk hands to the parser.
IsItem(k) == Called("process_etherscan_contracts") \/ subject[k].metadata # None

\* The entry is a folder whose metadata.json is cut short, or a text that is
\* neither of the two whole documents.
ItemFails(k) ==
    /\ IsItem(k)
    /\ IF Called("process_metadata_contracts")
       THEN subject[k].metadata = Some(<<"{", "C">>)
       ELSE subject[k] \notin {JsonDocument(<<File_A>>),
                                JsonDocumentOf(<<File_A, File_B>>, FALSE)}

\* The positions of the items that parse, in the order of the walk.
ParsedPositions ==
    SelectSeq([k \in 1..Len(subject) |-> k], LAMBDA k : IsItem(k) /\ ~ItemFails(k))

\* The contract was made from the entry at position k.
ContractOfItem(c, k) ==
    IF Called("process_metadata_contracts")
    THEN /\ c.metadata.contract_name = <<"C">>
         /\ SeqRange(c.source.files) = {f \in subject[k].files : EndsInDotSol(f.name)}
    ELSE c.source = ContractSource("json", <<SourceFile(Name_contract_json, subject[k])>>)

\* C25: a walk ends in a panic only when ignore_errors is false and only at
\* an item that fails to parse; with ignore_errors false it returns only when
\* no item fails; whenever it returns, every entry has been visited and the
\* list holds the contracts of the items that parsed, one each, in order.
C25_IgnoreErrors ==
    /\ (call_result # <<>> /\ call_result.kind = "panic") =>
          /\ ~call.ignore_errors
          /\ ItemFails(scope.k)
          /\ \A k \in 1..(scope.k - 1) : ~ItemFails(k)
    /\ (call_result # <<>> /\ call_result.kind = "Ok") =>
          /\ call.ignore_errors \/ \A k \in DOMAIN subject : ~ItemFails(k)
          /\ scope.k = Len(subject) + 1
          /\ Len(call_result.value) = Len(ParsedPositions)
          /\ \A j \in DOMAIN call_result.value :
                ContractOfItem(call_result.value[j], ParsedPositions[j])

\* With ignore_errors, a folder with a broken metadata.json was followed by
\* one that parsed, and the walk returned the one contract.
C25_Witness ==
    /\ Called("process_metadata_contracts")
    /\ call.ignore_errors
    /\ Len(subject) = 2
    /\ ItemFails(1)
    /\ call_result # <<>>
    /\ call_result.kind = "Ok"
    /\ Len(call_result.value) = 1

\* The same for two documents, the first one cut short.
C25_WitnessEtherscan ==
    /\ Called("process_etherscan_contracts")
    /\ call.ignore_errors
    /\ Len(subject) = 2
    /\ ItemFails(1)
    /\ call_result # <<>>
    /\ call_result.kind = "Ok"
    /\ Len(call_result.value) = 1

\* Without ignore_errors the walk stopped at the first broken item.
C25_WitnessPanic ==
    /\ ~call.ignore_errors
    /\ call_result # <<>>
    /\ call_result.kind = "panic"
    /\ scope.k = 1
    /\ Len(subject) = 2

-----------------------------------------------------------------------------
(* Properties of a contract with an unreadable document, checked under
   SpecContract *)

\* The contract is a Json variant whose text is one of the texts that are no
\* document.
UnreadableDocument ==
    /\ subject.source.type = "json"
    /\ subject.source.files[1].content \in MalformedDocuments

\* C26: for a Json-variant contract whose text cannot be parsed,
\* get_source_files, compile and export_source_code all return an error,
\* never a list of files, and no call ever writes a file.
C26_UnreadableIsAnError ==
    UnreadableDocument =>
       /\ disk.written = {}
       /\ disk.files = {}
       /\ (Called("get_source_files") \/ Called("compile") \/ Called("export_source_code"))
             => call_result.kind = "Err"

\* export_source_code was called on a contract whose document is cut short
\* and returned an error.
C26_Witness ==
    /\ UnreadableDocument
    /\ subject.source.files[1].content # <<>>
    /\ Called("export_source_code")
    /\ call_result.kind = "Err"

-----------------------------------------------------------------------------
(* The frame of compile, checked under SpecContract *)

\* C28: a compile call leaves metadata and source as they were; when it
\* returns Ok, compilation_output is the output it returns and source_files
\* is the file list of the source; when it returns an error, both fields are
\* as they were before the call.
C28_Step ==
    call'.method = "compile" =>
       /\ subject'.metadata = subject.metadata
       /\ subject'.source = subject.source
       /\ IF call_result'.kind = "Ok"
          THEN /\ subject'.compilation_output = Some(call_result'.value)
               /\ subject'.source_files # None
               /\ Ok(subject'.source_files[1]) = get_source_files(subject.source)
          ELSE /\ subject'.compilation_output = subject.compilation_output
               /\ subject'.source_files = subject.source_files

C28_CompileFrame == [][C28_Step]_vars

\* A compile failed on a contract that an earlier compile had attached an
\* output and two files to.
C28_Witness ==
    /\ Called("compile")
    /\ call_result.kind = "Err"
    /\ subject.compilation_output # None
    /\ subject.source_files # None
    /\ Len(subject.source_files[1]) = 2

-----------------------------------------------------------------------------
(* The page offsets of index_functions for every chunk size, checked under
   Spec *)

\* C33: the offsets of the pages index_functions queries increase strictly,
\* whatever the chunk size is, 0 included: no page is fetched twice.
C33_OffsetStrictlyIncreases ==
    \A k \in 1..(Len(fetched) - 1) : fetched[k] < fetched[k + 1]

\* The same for the chunk sizes of at least 1.
C33_OffsetIncreasesPositiveChunk ==
    size >= 1 => \A k \in 1..(Len(fetched) - 1) : fetched[k] < fetched[k + 1]

-----------------------------------------------------------------------------
(* Termination of index_functions, checked under SpecLive *)

\* ceil(n / p) for p >= 1
CeilDiv(n, p) == (n + p - 1) \div p

\* Every unit finishes without panicking: no contract hangs the toolchain and
\* none panics in extraction.
UnitsFinish == \A p \in DOMAIN outcome : outcome[p] \in {"compiled", "compile_err"}

\* index_functions returned Ok after ceil(N/P) pages, each of them stored.
ReturnedAfterAllPages ==
    /\ opc = "done"
    /\ Len(fetched) = CeilDiv(Len(contract), size)
    /\ stored = Range(fetched)

\* The unit of position p is in a compile() that never returns.
Hung(p) == task[p] = "compiling" /\ outcome[p] = "hang"

\* The first sentence of C29: with a chunk size of at least 1 and units that
\* all finish without panicking, index_functions eventually returns Ok, after
\* exactly ceil(N/P) pages.
C29_Terminates == (size >= 1 /\ UnitsFinish) ~> ReturnedAfterAllPages

\* C29: index_functions returns after ceil(N/P) pages when all units finish,
\* and while a unit hangs, index_functions is at the barrier of that unit's
\* page and has not stored the page. (The unit stays hung, so this is for
\* ever.)
C29_HungUnitBlocks ==
    \A p \in DOMAIN task :
       Hung(p) => /\ opc = "join"
                  /\ p \in CurrentPage
                  /\ CurrentOffset \notin stored

\* The second sentence for pages none of whose units panics.
C29_HungUnitBlocksQuietPage ==
    \A p \in DOMAIN task :
       (Hung(p) /\ \A q \in CurrentPage : outcome[q] # "extract_panic")
          => /\ opc = "join"
             /\ p \in CurrentPage
             /\ CurrentOffset \notin stored

-----------------------------------------------------------------------------
(* The ids of the rows of one extract_functions call, checked under
   SpecExtract *)

\* C30: in the rows one extract_functions call returns, two rows that differ
\* in contract_name or in selector have different ids, and store_functions
\* into an empty table persists all of them.
C30_DistinctRowsDistinctIds ==
    (Called("extract_functions") /\ call_result.kind = "Ok") =>
       LET rows == call_result.value IN
       /\ \A k, l \in DOMAIN rows :
             (rows[k].contract_name # rows[l].contract_name
              \/ rows[k].selector # rows[l].selector) => rows[k].id # rows[l].id
       /\ Cardinality({<<r.contract_name, r.selector>> : r \in Range(rows)})
             = Len(StoreFunctionsInto(<<>>, rows))

\* Rows of one call that have different selectors have different ids.
C30_DistinctSelectorsDistinctIds ==
    (Called("extract_functions") /\ call_result.kind = "Ok") =>
       LET rows == call_result.value IN
       \A k, l \in DOMAIN rows :
          rows[k].selector # rows[l].selector => rows[k].id # rows[l].id

-----------------------------------------------------------------------------
(* The source text of overloaded functions, checked under SpecOverload *)

\* The text of the definition of f that takes the argument type: in
\* OverloadContent the definition of f(u) is the byte "u", that of f(a) "a".
DefinitionText(argument) == argument

\* C31: no row of extract_functions carries, as its source_code, the text of
\* a definition of f whose signature is not the row's signature.
C31_OverloadOwnSource ==
    (Called("extract_functions") /\ call_result.kind = "Ok") =>
       \A k \in DOMAIN call_result.value :
          \A argument \in {<<"u">>, <<"a">>} :
             call_result.value[k].signature # AbiFunctionWith(Name_f, argument).signature
                => call_result.value[k].source_code # DefinitionText(argument)

\* The row of a function whose name only one definition carries has the text
\* of that definition or no text.
C31_UniqueNameOwnSource ==
    (Called("extract_functions") /\ call_result.kind = "Ok") =>
       \A k \in DOMAIN call_result.value :
          call_result.value[k].function_name = Name_g
             => call_result.value[k].source_code \in {<<>>, <<"g">>}

-----------------------------------------------------------------------------
(* Properties of the contract table, checked under SpecRows *)

\* C27: every row of the contract table is keyed by the hash of the source it
\* holds, and a get_contract(id) that finds a contract finds one whose id()
\* is id.
C27_KeyedByContentHash ==
    /\ \A k \in DOMAIN contract : contract[k].id = ContractId(row_to_contract(contract[k]))
    /\ (Called("get_contract") /\ call_result.value # None) =>
          ContractId(call_result.value[1]) = call.id

RowsKeyedByHash(table) ==
    \A k \in DOMAIN table : table[k].id = ContractId(row_to_contract(table[k]))

\* A step other than a store_contract that is given an id keeps every row
\* keyed by the hash of its source.
C27_KeyedWithoutIdArgument ==
    [][(RowsKeyedByHash(contract) /\ ~(call'.method = "store_contract" /\ call'.given))
          => RowsKeyedByHash(contract')]_vars

-----------------------------------------------------------------------------
(* Properties of store_contracts, checked under SpecStore *)

RowsWithId(id) == {k \in DOMAIN contract : contract[k].id = id}

\* C10: when store_contracts is called a second time with the same set of
\* contracts, the table holds exactly one row for the identity hash of each of
\* them, and count_contracts gives after the second call what it gave after
\* the first.
C10_StoreContractsIdempotent ==
    store_same =>
        /\ store_count = store_prev_count
        /\ \A c \in Range(store_last) : Cardinality(RowsWithId(ContractHash(c))) = 1

C10_Witness ==
    /\ store_same
    /\ Len(store_last) = 2
    /\ store_last[1] # store_last[2]
    /\ ContractHash(store_last[1]) = ContractHash(store_last[2])
    /\ store_count = 1

\* The first contract of the batch with the given identity hash.
FirstWithId(contracts, id) ==
    contracts[CHOOSE k \in DOMAIN contracts :
                /\ ContractHash(contracts[k]) = id
                /\ \A l \in 1..(k - 1) : ContractHash(contracts[l]) # id]

\* One call of store_contracts (its batch is store_last'): the rows that were
\* in the table are all still there, in place, with the name, metadata, source
\* and source_type they had; every contract of the batch has a row under its
\* identity hash afterwards, and where that hash had no row before, the row is
\* that of the first contract of the batch with that hash; the call returns Ok.
C11_Step ==
    /\ Len(contract') >= Len(contract)
    /\ \A k \in DOMAIN contract : contract'[k] = contract[k]
    /\ \A c \in Range(store_last') :
          \E k \in DOMAIN contract' :
             /\ contract'[k].id = ContractHash(c)
             /\ (k > Len(contract) =>
                   contract'[k] = ContractRow(FirstWithId(store_last', ContractHash(c))))
    /\ store_result' = "Ok"

\* C11: a contract given to store_contracts whose id already has a row (from
\* an earlier call or from earlier in the same batch) leaves that row's name,
\* metadata, source and source_type as they were, the other contracts of the
\* batch are still inserted, and the call returns Ok.
C11_ConflictIgnored == [][C11_Step]_vars

\* A second call whose first contract meets the row of an earlier call under
\* another name and whose second contract is new: the old row stands, the new
\* one is added.
C11_Witness ==
    /\ store_calls = 2
    /\ Len(store_last) = 2
    /\ Len(contract) = 2
    /\ store_prev_count = 1
    /\ store_count = 2
    /\ store_result = "Ok"
    /\ ContractHash(store_last[1]) = contract[1].id
    /\ store_last[1].metadata.contract_name # contract[1].name
    /\ contract[2] = ContractRow(store_last[2])

-----------------------------------------------------------------------------
(* Properties of compile, checked under SpecCompile *)

\* C8: each call of compile owns a temporary directory of its own from
\* tempdir() on, no two calls in progress own the same one, and a call that
\* has returned, on whichever path, owns none and has left none behind: the
\* temporary directories that exist are exactly those of the calls in progress.
C8_TempDirReclaimed ==
    /\ \A s \in Slots : (cpc[s] \in InCall \ {"tempdir"}) <=> croot[s] # 0
    /\ \A s \in Slots : \A t \in Slots : (s # t /\ croot[s] # 0) => croot[s] # croot[t]
    /\ tmpfs = {croot[s] : s \in {t \in Slots : croot[t] # 0}}

C8_Witness ==
    /\ cpc[1] = "err_toolchain"
    /\ cpc[2] = "toolchain"
    /\ croot[2] # 0
    /\ tmpfs = {croot[2]}

====
